---- MODULE Spec2Model ----
(***************************************************************************)
(* My Local Cinema (src/cinema.py): the enrichment pipeline of build_site. *)
(*                                                                         *)
(* One run of build_site enriches the movie-like categories (movies,       *)
(* stand-up, documentary) with enrich_movies, the shows with enrich_shows  *)
(* and the untitled episodes with fill_episode_titles_from_tmdb.  Every    *)
(* provider request is one step, so that the provider's answer (a failure, *)
(* an empty result or a document) is a nondeterministic input of the step, *)
(* and save_cache is two steps (open(path,"w") truncates the file,         *)
(* json.dump writes it) so that a run can be interrupted between them.     *)
(*                                                                         *)
(* Python values: an optional value is None == <<>> or Some(x) == <<x>>;   *)
(* a title is a sequence of one-character strings; a list is a sequence.   *)
(* genres and cast are only ever tested for truthiness and written back as *)
(* "x or []", so a missing list (None) is modelled as the empty list.      *)
(***************************************************************************)
EXTENDS Integers, Sequences, FiniteSets, TLC

VARIABLES
    run,       \* number of the current run of build_site
    creds,     \* TMDB_BEARER_TOKEN or TMDB_API_KEY is set in this run
    lib,       \* what discovery finds under the library roots
    disk,      \* the three cache files of the site directory
    pc,        \* position of the run
    call,      \* the enrichment call in progress: "m", "s", "d", "tv", "ep"
    idx,       \* index of the entity the call's loop is at
    cache,     \* the call's in-memory cache dict
    loc,       \* the locals of the loop body (the entity's fields)
    start,     \* the entity's cached record when its pass began
    att,       \* index of the next search of the entity
    req,       \* the last provider request of the entity's pass
    enriched,  \* the ids enrich_movies has appended to its result
    tvids,     \* shows_meta[sid]["tv_id"] of this run, per show
    saved,     \* the <<file, key>> a completed save_cache has put on disk
    given,     \* the documents the provider gave in run 1, per entity and request
    disk1,     \* the cache files when run 1 completed
    pick,      \* a result list handed to _pick_best_movie / _pick_best_tv, and its pick
    scan,      \* one discover_category / discover_shows scan of a library root
    parse,     \* one call of a name parser or of try_search_variants, and its result
    asset,     \* the poster step of the entities of one enrichment call
    serve,     \* the generated indexes and the play requests of CinemaHandler
    race,      \* two runs of enrich_movies on one cache file
    tool       \* one run of a filename tool on a directory tree

vars == <<run, creds, lib, disk, pc, call, idx, cache, loc, start, att, req,
          enriched, tvids, saved, given, disk1, pick, scan,
          parse, asset, serve, race, tool>>

others == <<parse, asset, serve, race, tool>>

(* ---------------------------------------------------------------- bounds *)
MaxRuns == 2

(* ------------------------------------------------------- python helpers *)
None == <<>>
Some(x) == <<x>>

Min(a, b) == IF a < b THEN a ELSE b

TMDB_IMG_BASE == "https://image.tmdb.org/t/p"
POSTER_SIZE == "w342"
BACKDROP_SIZE == "w1280"

(* The characters titles are written in. *)
Letters == {"A", "C", "a", "b", "c", "d"}
Space == {" "}
YearTokens == {"1999"}

LowerChar(c) ==
    CASE c = "A" -> "a" [] c = "C" -> "c" [] c = "S" -> "s" [] c = "E" -> "e" [] OTHER -> c

(* str.lower() *)
Lower(s) == [k \in 1..Len(s) |-> LowerChar(s[k])]

RECURSIVE DropWhile(_, _)
DropWhile(s, P) ==
    IF s = <<>> THEN <<>>
    ELSE IF Head(s) \in P THEN DropWhile(Tail(s), P) ELSE s

(* re.sub(r"[P]+", rep, s): every maximal run of characters of P becomes rep *)
RECURSIVE SubRuns(_, _, _)
SubRuns(s, P, rep) ==
    IF s = <<>> THEN <<>>
    ELSE IF Head(s) \in P THEN rep \o SubRuns(DropWhile(Tail(s), P), P, rep)
    ELSE <<Head(s)>> \o SubRuns(Tail(s), P, rep)

(* re.sub(r"[P]", rep, s): every single character of P becomes rep *)
RECURSIVE SubEach(_, _, _)
SubEach(s, P, rep) ==
    IF s = <<>> THEN <<>>
    ELSE IF Head(s) \in P THEN rep \o SubEach(Tail(s), P, rep)
    ELSE <<Head(s)>> \o SubEach(Tail(s), P, rep)

RECURSIVE Reverse(_)
Reverse(s) == IF s = <<>> THEN <<>> ELSE Reverse(Tail(s)) \o <<Head(s)>>

(* str.strip() on a title *)
StripSeq(s) == Reverse(DropWhile(Reverse(DropWhile(s, Space)), Space))

(* str.split(): the maximal runs of non-space characters *)
RECURSIVE SplitWords(_, _)
SplitWords(s, cur) ==
    IF s = <<>> THEN (IF cur = <<>> THEN <<>> ELSE <<cur>>)
    ELSE IF Head(s) \in Space
         THEN (IF cur = <<>> THEN <<>> ELSE <<cur>>) \o SplitWords(Tail(s), <<>>)
         ELSE SplitWords(Tail(s), cur \o <<Head(s)>>)

(* " ".join(words) *)
RECURSIVE JoinWords(_)
JoinWords(ws) ==
    IF ws = <<>> THEN <<>>
    ELSE IF Len(ws) = 1 THEN ws[1]
    ELSE ws[1] \o <<" ">> \o JoinWords(Tail(ws))

(* str.strip() on the text values the provider returns: "" and the         *)
(* whitespace-only text " " strip to "", the other texts have no           *)
(* surrounding whitespace.                                                 *)
Strip(s) == IF s = " " THEN "" ELSE s

(* ------------------------------------------------- query-variant generator *)
DotChars == {".", "_"}
(* the characters [^\w\s:] matches: neither word characters (letters,      *)
(* digits, "_"), nor whitespace, nor ":"                                   *)
PunctChars == {".", "-"}
WordChars == Letters \cup YearTokens \cup {"_"}

(* re.sub(r"\b(19\d{2}|20\d{2})\b", "", s): a year token is removed when it *)
(* stands between word boundaries                                          *)
RECURSIVE RemoveYearTokens(_, _)
RemoveYearTokens(s, prev) ==
    IF s = <<>> THEN <<>>
    ELSE IF /\ Head(s) \in YearTokens
            /\ prev \notin WordChars
            /\ (Len(s) = 1 \/ s[2] \notin WordChars)
         THEN RemoveYearTokens(Tail(s), Head(s))
         ELSE <<Head(s)>> \o RemoveYearTokens(Tail(s), Head(s))

(* re.sub(r"\s+", " ", s).strip() *)
Collapse(s) == StripSeq(SubRuns(s, Space, <<" ">>))

(* lines 415-418 *)
BaseTitle(title, force_yearless) ==
    IF force_yearless THEN Collapse(RemoveYearTokens(title, " ")) ELSE title

(* lines 427-434: the colon-insertion variant of stand-up / documentary *)
ColonVariant(t_base, force_yearless) ==
    LET words == SplitWords(SubRuns(t_base, Space, <<" ">>), <<>>)
    IN  IF force_yearless /\ (\A k \in 1..Len(t_base) : t_base[k] # ":") /\ Len(words) >= 2
        THEN IF Len(words) = 2
             THEN << words[1] \o <<":", " ">> \o words[2] >>
             ELSE << words[1] \o <<" ">> \o words[2] \o <<":", " ">>
                     \o JoinWords(SubSeq(words, 3, Len(words))) >>
        ELSE <<>>

(* lines 421-434: the text variants, in order *)
TextVariants(title, force_yearless) ==
    LET t_base == BaseTitle(title, force_yearless)
    IN  << t_base,
           SubRuns(t_base, DotChars, <<" ">>),
           StripSeq(SubEach(t_base, PunctChars, <<" ">>)) >>
        \o ColonVariant(t_base, force_yearless)

(* lines 458, 470: the colon-stripped fallback text *)
FallbackTitle(variants) == Collapse(SubEach(variants[1], {":"}, <<" ">>))

(* line 462 *)
YearSweep(year) ==
    IF year # None /\ year[1] # 0
    THEN << year, Some(year[1] - 1), Some(year[1] + 1), Some(year[1] - 2), Some(year[1] + 2) >>
    ELSE <<>>

RECURSIVE Flatten(_)
Flatten(ss) == IF ss = <<>> THEN <<>> ELSE Head(ss) \o Flatten(Tail(ss))

(* variant of lines 463-469: the yearless attempts come before the year   *)
(* sweep                                                                   *)
AttemptCalls_yearlessfirst(title, year, force_yearless) ==
    LET variants == TextVariants(title, force_yearless)
        yearless == [k \in 1..Len(variants) |-> [q |-> variants[k], y |-> None]]
        fallback == << [q |-> FallbackTitle(variants), y |-> None] >>
        sweep == YearSweep(year)
        swept == Flatten([j \in 1..Len(sweep) |->
                          [k \in 1..Len(variants) |-> [q |-> variants[k], y |-> sweep[j]]]])
    IN  yearless \o swept \o fallback

(* lines 452-471: the calls attempt(qtitle, y) of try_search_variants in   *)
(* the order the code makes them while none of them is accepted            *)
AttemptCalls(title, year, force_yearless) ==
    LET variants == TextVariants(title, force_yearless)
        yearless == [k \in 1..Len(variants) |-> [q |-> variants[k], y |-> None]]
        fallback == << [q |-> FallbackTitle(variants), y |-> None] >>
        sweep == YearSweep(year)
        swept == Flatten([j \in 1..Len(sweep) |->
                          [k \in 1..Len(variants) |-> [q |-> variants[k], y |-> sweep[j]]]])
    IN  IF force_yearless THEN yearless \o fallback
        ELSE swept \o yearless \o fallback

(* line 439: the deduplication key of an attempt *)
AttemptKey(a) == <<Lower(a.q), a.y>>

(* variant of line 440: attempt() does not look at the keys it has seen *)
Dedup_none(calls, seen) == SelectSeq(calls, LAMBDA a : a.q # <<>>)

(* lines 439-445: attempt() returns at once for an empty query or a key it *)
(* has seen; the others become provider searches, with the year forced off *)
(* when force_yearless                                                     *)
RECURSIVE Dedup(_, _)
Dedup(calls, seen) ==
    IF calls = <<>> THEN <<>>
    ELSE IF Head(calls).q = <<>> \/ AttemptKey(Head(calls)) \in seen
         THEN Dedup(Tail(calls), seen)
         ELSE <<Head(calls)>> \o Dedup(Tail(calls), seen \cup {AttemptKey(Head(calls))})

UseYear(a, force_yearless) == IF force_yearless THEN None ELSE a.y

MovieSearches(title, year, force_yearless) ==
    LET d == Dedup(AttemptCalls(title, year, force_yearless), {})
    IN  [k \in 1..Len(d) |-> [q |-> d[k].q, y |-> UseYear(d[k], force_yearless)]]


(* -------------------------------------------------------- show text variants *)
DropTrailing(s, P) == Reverse(DropWhile(Reverse(s), P))

(* the text before a trailing year token "\b(19\d{2}|20\d{2})\b\s*$", or    *)
(* None when the text does not end with one                                *)
BeforeTrailingYear(s) ==
    LET r == DropTrailing(s, Space)
    IN  IF /\ r # <<>>
           /\ r[Len(r)] \in YearTokens
           /\ (Len(r) = 1 \/ r[Len(r) - 1] \notin WordChars)
        THEN Some(SubSeq(r, 1, Len(r) - 1))
        ELSE None

(* strip_trailing_year, lines 537-539 *)
strip_trailing_year(title) ==
    LET b == BeforeTrailingYear(title)
    IN  IF b = None THEN StripSeq(title)
        ELSE StripSeq(DropTrailing(b[1], {".", " "}))

(* normalize_title_for_search, lines 529-535 (titles hold no parentheses:  *)
(* clean_name has removed them)                                            *)
normalize_title_for_search(t) ==
    LET t1 == SubEach(t, DotChars, <<" ">>)
        b  == BeforeTrailingYear(t1)
        t2 == IF b = None THEN t1 ELSE b[1]
        t3 == SubEach(t2, {"-", ":"}, <<" ">>)
    IN  Collapse(t3)

(* lines 607-617: the provider searches of try_tv_variants, in order *)
RECURSIVE DedupTv(_, _)
DedupTv(vs, seen) ==
    IF vs = <<>> THEN <<>>
    ELSE LET t == StripSeq(Head(vs))
         IN  IF t = <<>> \/ Lower(t) \in seen THEN DedupTv(Tail(vs), seen)
             ELSE <<[q |-> t, y |-> None]>> \o DedupTv(Tail(vs), seen \cup {Lower(t)})

TvSearches(title_in) ==
    DedupTv(<< title_in,
               strip_trailing_year(title_in),
               normalize_title_for_search(title_in),
               normalize_title_for_search(strip_trailing_year(title_in)) >>, {})

(* ------------------------------------------------------- provider documents *)
(* A search result: id (None when the key is missing), poster_path ("" for *)
(* null), overview, the date (release_date / first_air_date) split at "-"  *)
(* (<<>> for a missing date), and sc, the value _sim_score gives the       *)
(* result for the query, in hundredths.                                    *)
CandFull   == [id |-> Some(1), poster_path |-> "/p1.jpg", overview |-> "o1",
               date |-> <<2010, 5, 1>>, sc |-> 130]
CandSparse == [id |-> Some(2), poster_path |-> "", overview |-> " ",
               date |-> <<>>, sc |-> 30]
CandNoId   == [id |-> None, poster_path |-> "/p2.jpg", overview |-> "",
               date |-> <<2012, 1, 1>>, sc |-> -10]
Candidates == {CandFull, CandSparse, CandNoId}

MaxResults == 2

RECURSIVE SeqsUpTo(_, _)
SeqsUpTo(S, n) ==
    IF n = 0 THEN {<<>>}
    ELSE LET shorter == SeqsUpTo(S, n - 1)
         IN  shorter \cup {Append(q, x) : q \in shorter, x \in S}

(* what a search request can return: None (HTTP error, timeout, malformed  *)
(* JSON: _tmdb_open returns None) or a document with a result list         *)
SearchAnswers == {None} \cup {Some(rs) : rs \in SeqsUpTo(Candidates, MaxResults)}

(* A details document.  genres and cast are the lists of the "name" values *)
(* ("" for an entry without a name); release_dates is the list of          *)
(* countries, each with the certifications of its releases.                *)
DetFull   == [genres |-> <<"", "Drama">>, runtime |-> Some(90), vote_average |-> Some(7),
              tagline |-> "t1", backdrop_path |-> "/b1.jpg",
              release_dates |-> << [iso |-> "GB", certs |-> <<"15">>],
                                   [iso |-> "US", certs |-> <<"", "PG">>] >>,
              cast |-> <<"c1", "c2", "c3", "c4", "c5", "c6">>,
              first_air_date |-> <<2011, 9, 1>>]
DetPart   == [genres |-> <<"Comedy">>, runtime |-> Some(120), vote_average |-> None,
              tagline |-> "t2", backdrop_path |-> "",
              release_dates |-> <<>>,
              cast |-> <<"k1">>, first_air_date |-> <<>>]
DetSparse == [genres |-> <<>>, runtime |-> None, vote_average |-> None,
              tagline |-> " ", backdrop_path |-> "",
              release_dates |-> << [iso |-> "GB", certs |-> <<"15">>] >>,
              cast |-> <<>>, first_air_date |-> <<>>]
Details == {DetFull, DetPart, DetSparse}
DetailsAnswers == {None} \cup {Some(d) : d \in Details}

(* an episode document holds the episode's name ("" when it has none) *)
EpisodeAnswers == {None, Some([name |-> ""]), Some([name |-> "n1"])}

(* ------------------------------------------------------------------ scorer *)
(* _sim_score: at least -0.10, as every term but the year term is >= 0     *)
_sim_score(r) == r.sc

(* _pick_best_movie / _pick_best_tv: the strictly best of the first ten    *)
(* results, starting from best = None, best_score = -1                     *)
(* _year_score, lines 318-327, in hundredths; a year is None or Some(y) *)
_year_score(query_year, cand_year) ==
    IF query_year = None \/ cand_year = None THEN 0
    ELSE LET d == query_year[1] - cand_year[1]
             diff == IF d < 0 THEN -d ELSE d
         IN  IF diff = 0 THEN 25
             ELSE IF diff <= 1 THEN 18
             ELSE IF diff = 2 THEN 10
             ELSE -10

(* lines 329-339: the values jacc + y + poster_bonus + colon_bonus takes,   *)
(* for no, half and all of the title tokens shared and years around 1999    *)
SimScores ==
    {jacc + _year_score(qyear, cyear) + poster_bonus + colon_bonus :
        jacc \in {0, 50, 100},
        qyear \in {None, Some(1999)},
        cyear \in {None} \cup {Some(y) : y \in 1995..2003},
        poster_bonus \in {0, 5},
        colon_bonus \in {0, 8}}
LowestScore == CHOOSE s \in SimScores : \A o \in SimScores : s <= o

(* variant of lines 380 and 579: a result is taken only with a score of at *)
(* least 0                                                                 *)
Better_threshold(sc, best_score) == sc > best_score /\ sc >= 0

(* lines 380 and 579: if sc > best_score *)
Better(sc, best_score) == sc > best_score

RECURSIVE PickLoop(_, _, _)
PickLoop(rs, best, best_score) ==
    IF rs = <<>> THEN best
    ELSE IF Better(_sim_score(Head(rs)), best_score)
         THEN PickLoop(Tail(rs), Some(Head(rs)), _sim_score(Head(rs)))
         ELSE PickLoop(Tail(rs), best, best_score)

(* variant of lines 373 and 572: every result is scored, not the first ten *)
_pick_best_all(result_json) ==
    IF result_json = None THEN None
    ELSE PickLoop(result_json[1], None, -100)

_pick_best(result_json) ==
    IF result_json = None THEN None
    ELSE LET results == result_json[1]
         IN  PickLoop(SubSeq(results, 1, Min(10, Len(results))), None, -100)

(* lines 446-450 and 619-622: the accepted match of one search, or None *)
Accepted(data) ==
    IF data # None /\ data[1] # <<>> THEN _pick_best(data) ELSE None

(* first_air_year_from, lines 562-565 *)
first_air_year_from(date) == IF date = <<>> THEN None ELSE Some(date[1])

(* extract_cert_from_movie_release_dates, lines 358-366: the first         *)
(* non-empty certification of a US entry                                   *)
RECURSIVE FirstNonEmpty(_)
FirstNonEmpty(certs) ==
    IF certs = <<>> THEN None
    ELSE IF Strip(Head(certs)) # "" THEN Some(Strip(Head(certs)))
    ELSE FirstNonEmpty(Tail(certs))

RECURSIVE extract_cert(_)
extract_cert(entries) ==
    IF entries = <<>> THEN None
    ELSE IF Head(entries).iso = "US" /\ FirstNonEmpty(Head(entries).certs) # None
         THEN FirstNonEmpty(Head(entries).certs)
         ELSE extract_cert(Tail(entries))

(* [x.get("name") for x in xs if x.get("name")] *)
Names(xs) == SelectSeq(xs, LAMBDA n : n # "")

(* ------------------------------------------------------ enrichment records *)
(* One record shape for both caches: id is movie_id / tv_id; a movie       *)
(* record has no first_year and a show record no runtime and no            *)
(* certification (they stay None).                                         *)
EmptyRec == [id |-> None, poster_url |-> "", overview |-> "", genres |-> <<>>,
             runtime |-> None, vote |-> None, certification |-> None,
             first_year |-> None, cast |-> <<>>, backdrop_url |-> "", tagline |-> ""]

MovieFields == {"id", "poster_url", "overview", "genres", "runtime", "vote",
                "certification", "cast", "backdrop_url", "tagline"}
ShowFields  == {"id", "poster_url", "overview", "genres", "vote", "first_year",
                "cast", "backdrop_url", "tagline"}
FieldsOf(kind) == IF kind = "tv" THEN ShowFields ELSE MovieFields

(* a field is populated when it is not None, "" or [] *)
TextFields == {"poster_url", "overview", "backdrop_url", "tagline"}
Populated(rec, f) == IF f \in TextFields THEN rec[f] # "" ELSE rec[f] # <<>>

PosterUrl(pp) == TMDB_IMG_BASE \o "/" \o POSTER_SIZE \o pp
BackdropUrl(bp) == TMDB_IMG_BASE \o "/" \o BACKDROP_SIZE \o bp

(* dict helpers *)
Get(d, k, default) == IF k \in DOMAIN d THEN d[k] ELSE default
Put(d, k, v) == [x \in DOMAIN d \cup {k} |-> IF x = k THEN v ELSE d[x]]
EmptyDict == <<>>

(* line 405 and line 604 *)
NeedDetails(kind, l) ==
    IF kind = "tv"
    THEN ~(l.genres # <<>> /\ l.vote # None /\ l.first_year # None /\ l.cast # <<>>)
    ELSE ~(l.genres # <<>> /\ l.runtime # None /\ l.vote # None
           /\ l.certification # None /\ l.cast # <<>>)

(* variant of line 475: the search is made for every entity *)
SearchTrigger_always(l, need_details) == TRUE

(* line 475 and line 625 *)
SearchTrigger(l, need_details) ==
    l.id = None \/ need_details \/ l.poster_url = "" \/ l.overview = ""

(* variant of line 484: the details are fetched whenever there is a provider id *)
DetailsTrigger_always(l, need_details) == l.id # None

(* variant of line 484: the details are fetched without a provider id *)
DetailsTrigger_noid(l, need_details) ==
    need_details \/ l.backdrop_url = "" \/ l.tagline = ""

(* line 484 and line 635 *)
DetailsTrigger(l, need_details) ==
    l.id # None /\ (need_details \/ l.backdrop_url = "" \/ l.tagline = "")

(* lines 478-480 and 628-631: the accepted match is merged into the locals *)
MergeSearch(kind, l, best) ==
    [l EXCEPT !.id = IF best.id # None THEN best.id ELSE @,
              !.poster_url = IF best.poster_path # "" THEN PosterUrl(best.poster_path) ELSE @,
              !.overview = Strip(IF best.overview # "" THEN best.overview ELSE @),
              !.first_year = IF kind = "tv" THEN first_air_year_from(best.date) ELSE @]

(* variant of line 487: the genres of the details document replace the cached ones *)
MergeDetails_overwrite(kind, l, det) ==
    [l EXCEPT !.genres = IF Names(det.genres) # <<>> THEN Names(det.genres) ELSE @,
              !.vote = IF @ = None THEN det.vote_average ELSE @,
              !.tagline = Strip(IF det.tagline # "" THEN det.tagline ELSE @)]

(* lines 487-495 and 638-646: the details document is merged into the locals *)
MergeDetails(kind, l, det) ==
    [l EXCEPT !.genres = IF @ # <<>> THEN @ ELSE Names(det.genres),
              !.runtime = IF kind = "tv" THEN @
                          ELSE IF @ = None THEN det.runtime ELSE @,
              !.vote = IF @ = None THEN det.vote_average ELSE @,
              !.tagline = Strip(IF det.tagline # "" THEN det.tagline ELSE @),
              !.backdrop_url = IF det.backdrop_path # "" /\ @ = ""
                               THEN BackdropUrl(det.backdrop_path) ELSE @,
              !.certification = IF kind = "tv" THEN @
                                ELSE IF @ # None THEN @ ELSE extract_cert(det.release_dates),
              !.first_year = IF kind = "tv" /\ @ = None
                             THEN first_air_year_from(det.first_air_date) ELSE @,
              !.cast = IF @ # <<>> THEN @
                       ELSE LET names == Names(det.cast)
                            IN  SubSeq(names, 1, Min(5, Len(names)))]

(* lines 499-501 and 650-652: the record written back for the entity *)
RecordOf(l) == l

(* ------------------------------------------------------------------ library *)
(* What discovery yields, per category in build_site's order; a show has   *)
(* its episodes (season, number, title parsed from the file name).         *)
Title_Ab  == <<"A", "-", "b">>
Title_ab  == <<"a", "b">>
Title_Cd  == <<"C", " ", "d">>
Title_Sh  == <<"C", "d", " ", "1999">>

LibMovies == [m  |-> << [id |-> "m1", title |-> Title_Ab, year |-> Some(2019)],
                        [id |-> "m2", title |-> Title_ab, year |-> None] >>,
              s  |-> <<>>, d |-> <<>>, tv |-> <<>>]
LibStandup == [m |-> <<>>,
               s |-> << [id |-> "s1", title |-> Title_Cd, year |-> Some(2021)] >>,
               d |-> << [id |-> "d1", title |-> Title_Cd, year |-> Some(2021)] >>,
               tv |-> <<>>]
LibShows == [m |-> <<>>, s |-> <<>>, d |-> <<>>,
             tv |-> << [id |-> "tv1", title |-> Title_Sh,
                        eps |-> << [s |-> 1, e |-> 1, title |-> ""],
                                   [s |-> 1, e |-> 2, title |-> "Pilot"] >>],
                       [id |-> "tv2", title |-> Title_ab,
                        eps |-> << [s |-> 2, e |-> 1, title |-> "Finale"] >>] >>]
Libraries == {LibMovies, LibStandup, LibShows}

KindOf(c) == IF c = "tv" THEN "tv" ELSE "movie"

(* line 392 (f"{title}|{year}") and line 592 (title.lower()) *)
CacheKey(c, item) == IF c = "tv" THEN Lower(item.title) ELSE <<item.title, item.year>>

(* the cache file of each call: lines 388, 587, 686 *)
FileOf(c) == IF c = "tv" THEN "tv" ELSE IF c = "ep" THEN "ep" ELSE "movie"

(* line 476: try_search_variants is called without force_yearless, for     *)
(* every category                                                          *)
ForceYearless(c) == FALSE

(* the provider searches of one entity, in order *)
Searches(c, item) ==
    IF c = "tv" THEN TvSearches(item.title)
    ELSE MovieSearches(item.title, item.year, ForceYearless(c))

(* load_cache, lines 284-289: {} for a missing or unreadable file *)
load_cache(file) == IF file.ok THEN file.data ELSE EmptyDict

(* the file while save_cache is between open(path, "w") and the end of     *)
(* json.dump: truncated or partly written, not parseable                   *)
TornFile == [ok |-> FALSE, data |-> EmptyDict]

(* no parser call, poster step, server, concurrent run or filename tool is *)
(* in progress                                                             *)
NoParse == [fn |-> "off", arg |-> <<>>, out |-> <<>>, done |-> FALSE]
NoAsset == [phase |-> "off", dir |-> "", items |-> <<>>, i |-> 1, files |-> <<>>,
            downloads |-> <<>>, out |-> <<>>]
NoServe == [phase |-> "off", cat |-> "", entries |-> <<>>, fs |-> <<>>, index |-> <<>>,
            reqs |-> <<>>, launched |-> <<>>]
NoRace == [phase |-> "off", file |-> [ok |-> TRUE, data |-> <<>>], runs |-> <<>>,
           saved |-> {}, last |-> 0]
NoTool == [phase |-> "off", prog |-> "", dry_run |-> FALSE, fs |-> [dirs |-> {}, files |-> {}],
           fs0 |-> [dirs |-> {}, files |-> {}], walk |-> <<>>, names |-> {}, entries |-> <<>>]
InitOthers ==
    /\ parse = NoParse /\ asset = NoAsset /\ serve = NoServe
    /\ race = NoRace /\ tool = NoTool

NoPick == [results |-> <<>>, best |-> None, done |-> FALSE]
NoScan == [phase |-> "off", prefix |-> "", root |-> {}, pool |-> "", todo |-> <<>>,
           i |-> 1, items |-> <<>>, shows_map |-> <<>>, shows_meta |-> <<>>,
           show_id_seq |-> 1, handled |-> <<>>, episodes_index |-> <<>>,
           shows_list |-> <<>>]

(* ------------------------------------------------------------ state machine *)
NoReq == [kind |-> "none", q |-> <<>>, y |-> None, id |-> None, s |-> 0, e |-> 0,
          sent |-> FALSE]

Items(c) == IF c \in {"m", "s", "d", "tv"} THEN lib[c] ELSE <<>>
Item == Items(call)[idx]
Key == CacheKey(call, Item)

NoneGiven == [search |-> {}, details |-> {}, episode |-> {}]
NoTvIds == [k \in 1..Len(lib.tv) |-> None]
EmptyDisk == [f \in {"movie", "tv", "ep"} |-> [ok |-> TRUE, data |-> EmptyDict]]

InitPipeline ==
    /\ run = 0
    /\ creds = TRUE
    /\ lib \in Libraries
    /\ disk = EmptyDisk
    /\ pc = "idle"
    /\ call = "none"
    /\ idx = 0
    /\ cache = EmptyDict
    /\ loc = EmptyRec
    /\ start = EmptyRec
    /\ att = 0
    /\ req = NoReq
    /\ enriched = <<>>
    /\ tvids = NoTvIds
    /\ saved = {}
    /\ given = NoneGiven
    /\ disk1 = EmptyDisk

Init == InitPipeline /\ pick = NoPick /\ scan = NoScan /\ InitOthers

(* where the loop body goes after the search block: the details request of *)
(* line 485 / 636 when line 484 / 635 asks for it, else the write-back     *)
AfterSearch(l) ==
    IF DetailsTrigger(l, NeedDetails(KindOf(call), start)) THEN "details" ELSE "save"

(* build_site, lines 1064-1070: a run starts with enrich_movies(movies) *)
StartRun ==
    /\ pc \in {"idle", "done"}
    /\ run < MaxRuns
    /\ run' = run + 1
    /\ creds' \in BOOLEAN
    /\ call' = "m"
    /\ cache' = load_cache(disk.movie)
    /\ idx' = 1
    /\ pc' = "loop"
    /\ enriched' = <<>>
    /\ tvids' = NoTvIds
    /\ loc' = EmptyRec /\ start' = EmptyRec /\ att' = 0 /\ req' = NoReq
    /\ UNCHANGED <<lib, disk, saved, given, disk1>>
    /\ UNCHANGED <<pick, scan, others>>

(* lines 391-405 and 590-604: the loop takes the next entity and reads its *)
(* cached record; line 475 / 625 decides whether to search                 *)
BeginItem ==
    /\ pc = "loop"
    /\ idx <= Len(Items(call))
    /\ LET c == Get(cache, Key, EmptyRec)
           need_details == NeedDetails(KindOf(call), c)
       IN  /\ loc' = c
           /\ start' = c
           /\ pc' = IF SearchTrigger(c, need_details) /\ Searches(call, Item) # <<>>
                    THEN "search"
                    ELSE IF DetailsTrigger(c, need_details) THEN "details" ELSE "save"
    /\ att' = 1
    /\ req' = NoReq
    /\ UNCHANGED <<run, creds, lib, disk, call, idx, cache, enriched, tvids, saved,
                   given, disk1>>
    /\ UNCHANGED <<pick, scan, others>>

(* variant of line 514: only a matched entity is appended *)
Appended_matched(enr, item, l) == IF l.id = None THEN enr ELSE Append(enr, item.id)

(* line 514 and line 524: the entity's entry is appended to the result *)
Appended(enr, item, l) == Append(enr, item.id)

(* ---- the provider ---- *)
(* tmdb_search_movie / tmdb_search_tv / tmdb_movie_details /               *)
(* tmdb_tv_details / tmdb_tv_episode_details, lines 342-356 and 541-560:   *)
(* without credentials the lookup returns None before any HTTP request;    *)
(* with credentials it returns what _tmdb_open returns.  With nonew, the   *)
(* provider gives an entity in a later run only what it gave that entity   *)
(* for the same request in run 1.                                          *)
(* variant of lines 343 and 353: the lookup goes to the provider even      *)
(* without credentials                                                     *)
Docs_always(nonew, kind, r, all) == all

Docs(nonew, kind, r, all) ==
    IF ~creds THEN {None}
    ELSE IF nonew /\ run > 1
         THEN {None} \cup {g[4] : g \in {h \in given[kind] :
                                          h[1] = call /\ h[2] = idx /\ h[3] = r}}
         ELSE all

Record(nonew, kind, r, doc, isData) ==
    IF nonew /\ run = 1 /\ isData
    THEN [given EXCEPT ![kind] = @ \cup {<<call, idx, r, doc>>}]
    ELSE given

(* variant of lines 463-471 and 614: a search that was not accepted is     *)
(* sent again                                                              *)
NextAttempt_again(k) == k

(* lines 463-471 and 614: the for loops go on to the next attempt; nothing *)
(* sends a request a second time (_tmdb_open, lines 60-77, makes one       *)
(* urlopen call and returns None when it fails)                            *)
NextAttempt(k) == k + 1

(* lines 438-450 and 614-622: one provider search of the entity *)
SearchAttempt(nonew) ==
    /\ pc = "search"
    /\ LET a == Searches(call, Item)[att]
           r == [NoReq EXCEPT !.kind = "search", !.q = a.q, !.y = a.y, !.sent = creds]
       IN  /\ req' = r
           /\ \E data \in Docs(nonew, "search", r, SearchAnswers) :
                LET best == Accepted(data)
                    merged == MergeSearch(KindOf(call), loc, best[1])
                IN  /\ given' = Record(nonew, "search", r, Some(<<best[1]>>), best # None)
                    /\ IF best # None
                       THEN /\ loc' = merged
                            /\ pc' = AfterSearch(merged)
                            /\ att' = att
                       ELSE /\ loc' = loc
                            /\ IF att < Len(Searches(call, Item))
                               THEN att' = NextAttempt(att) /\ pc' = "search"
                               ELSE att' = att /\ pc' = AfterSearch(loc)
    /\ UNCHANGED <<run, creds, lib, disk, call, idx, cache, start, enriched, tvids, saved, disk1>>
    /\ UNCHANGED <<pick, scan, others>>

(* lines 484-497 and 635-648: the details request of the entity *)
DetailsFetch(nonew) ==
    /\ pc = "details"
    /\ LET r == [NoReq EXCEPT !.kind = "details", !.id = loc.id, !.sent = creds]
       IN  /\ req' = r
           /\ \E det \in Docs(nonew, "details", r, DetailsAnswers) :
                /\ given' = Record(nonew, "details", r, det, det # None)
                /\ loc' = IF det # None THEN MergeDetails(KindOf(call), loc, det[1]) ELSE loc
    /\ pc' = "save"
    /\ UNCHANGED <<run, creds, lib, disk, call, idx, cache, start, att, enriched, tvids,
                   saved, disk1>>
    /\ UNCHANGED <<pick, scan, others>>

(* lines 499-502 and 650-653: the record goes into the in-memory cache and *)
(* save_cache opens the file for writing, which truncates it               *)
SaveOpen ==
    /\ pc = "save"
    /\ cache' = Put(cache, Key, RecordOf(loc))
    /\ disk' = [disk EXCEPT ![FileOf(call)] = TornFile]
    /\ pc' = "dump"
    /\ UNCHANGED <<run, creds, lib, call, idx, loc, start, att, req, enriched, tvids,
                   saved, given, disk1>>
    /\ UNCHANGED <<pick, scan, others>>

(* variant of lines 502 and 653: the loop body does not write the file *)
SaveDump_batched ==
    /\ pc = "dump"
    /\ disk' = disk
    /\ IF call = "tv"
       THEN /\ tvids' = [tvids EXCEPT ![idx] = cache[Key].id]
            /\ enriched' = enriched
       ELSE /\ enriched' = Appended(enriched, Item, loc)
            /\ tvids' = tvids
    /\ saved' = saved
    /\ idx' = idx + 1
    /\ pc' = "loop"
    /\ UNCHANGED <<run, creds, lib, call, cache, loc, start, att, req, given, disk1>>
    /\ UNCHANGED <<pick, scan, others>>

(* line 293 (json.dump writes the whole in-memory cache), then the rest of *)
(* the loop body: lines 504-525 and 655-681                                *)
SaveDump ==
    /\ pc = "dump"
    /\ disk' = [disk EXCEPT ![FileOf(call)] = [ok |-> TRUE, data |-> cache]]
    /\ IF call = "tv"
       THEN /\ tvids' = [tvids EXCEPT ![idx] = cache[Key].id]
            /\ enriched' = enriched
       ELSE /\ enriched' = Appended(enriched, Item, loc)
            /\ tvids' = tvids
    /\ saved' = saved \cup {<<FileOf(call), k>> : k \in DOMAIN cache}
    /\ idx' = idx + 1
    /\ pc' = "loop"
    /\ UNCHANGED <<run, creds, lib, call, cache, loc, start, att, req, given, disk1>>
    /\ UNCHANGED <<pick, scan, others>>

(* ---- episode titles ---- *)
(* the episodes of shows_meta in the order fill_episode_titles_from_tmdb   *)
(* visits them                                                             *)
EpItems ==
    Flatten([i \in 1..Len(lib.tv) |->
             [j \in 1..Len(lib.tv[i].eps) |-> [show |-> i, ep |-> j]]])

(* lines 689-695: shows without tv_id and episodes with a title are skipped *)
Untitled(k) ==
    LET w == EpItems[k]
    IN  tvids[w.show] # None /\ lib.tv[w.show].eps[w.ep].title = ""

RECURSIVE NextEp(_)
NextEp(k) == IF k > Len(EpItems) \/ Untitled(k) THEN k ELSE NextEp(k + 1)

(* line 697 *)
EpKey(k) ==
    LET w == EpItems[k]
    IN  <<tvids[w.show][1], lib.tv[w.show].eps[w.ep].s, lib.tv[w.show].eps[w.ep].e>>

(* line 699: "if not name" is true for a missing key and for a cached ""   *)
EpLookupNeeded(name) == name = ""

(* build_site lines 1070-1089: the next enrichment call of the run *)
NextCall ==
    /\ pc = "loop"
    /\ idx > Len(Items(call))
    /\ call' = CASE call = "m" -> "s" [] call = "s" -> "d" [] call = "d" -> "tv"
                 [] OTHER -> "ep"
    /\ cache' = load_cache(disk[FileOf(call')])
    /\ idx' = IF call' = "ep" THEN NextEp(1) ELSE 1
    /\ pc' = IF call' = "ep" THEN "eploop" ELSE "loop"
    /\ enriched' = <<>>
    /\ loc' = EmptyRec /\ start' = EmptyRec /\ att' = 0 /\ req' = NoReq
    /\ UNCHANGED <<run, creds, lib, disk, tvids, saved, given, disk1>>
    /\ UNCHANGED <<pick, scan, others>>

(* lines 696-706, cache hit: the cached name becomes the episode's title *)
EpisodeCached ==
    /\ pc = "eploop"
    /\ idx <= Len(EpItems)
    /\ ~EpLookupNeeded(Get(cache, EpKey(idx), ""))
    /\ idx' = NextEp(idx + 1)
    /\ req' = NoReq
    /\ UNCHANGED <<run, creds, lib, disk, pc, call, cache, loc, start, att, enriched,
                   tvids, saved, given, disk1>>
    /\ UNCHANGED <<pick, scan, others>>

(* lines 699-703: the episode request; its name, or "" when the request    *)
(* failed or the document has no name, goes into the cache, and save_cache *)
(* opens the file                                                          *)
EpisodeLookup(nonew) ==
    /\ pc = "eploop"
    /\ idx <= Len(EpItems)
    /\ EpLookupNeeded(Get(cache, EpKey(idx), ""))
    /\ LET k == EpKey(idx)
           r == [NoReq EXCEPT !.kind = "episode", !.id = Some(k[1]), !.s = k[2],
                              !.e = k[3], !.sent = creds]
       IN  /\ req' = r
           /\ \E det \in Docs(nonew, "episode", r, EpisodeAnswers) :
                LET name == IF det = None THEN "" ELSE det[1].name
                IN  /\ cache' = Put(cache, k, name)
                    /\ given' = Record(nonew, "episode", r, det, name # "")
    /\ disk' = [disk EXCEPT !.ep = TornFile]
    /\ pc' = "epdump"
    /\ UNCHANGED <<run, creds, lib, call, idx, loc, start, att, enriched, tvids, saved,
                   disk1>>
    /\ UNCHANGED <<pick, scan, others>>

(* line 703 (json.dump), then the next episode *)
EpisodeDump ==
    /\ pc = "epdump"
    /\ disk' = [disk EXCEPT !.ep = [ok |-> TRUE, data |-> cache]]
    /\ saved' = saved \cup {<<"ep", k>> : k \in DOMAIN cache}
    /\ idx' = NextEp(idx + 1)
    /\ pc' = "eploop"
    /\ UNCHANGED <<run, creds, lib, call, cache, loc, start, att, req, enriched, tvids,
                    given, disk1>>
    /\ UNCHANGED <<pick, scan, others>>

(* line 707 and the rest of build_site: the run completes *)
FinishRun(nonew) ==
    /\ pc = "eploop"
    /\ idx > Len(EpItems)
    /\ pc' = "done"
    /\ call' = "none"
    /\ idx' = 0
    /\ cache' = EmptyDict
    /\ req' = NoReq
    /\ tvids' = NoTvIds
    /\ disk1' = IF nonew /\ run = 1 THEN disk ELSE disk1
    /\ UNCHANGED <<run, creds, lib, disk, loc, start, att, enriched, saved,
                   given>>
    /\ UNCHANGED <<pick, scan, others>>

(* the process is killed (Ctrl-C, power loss) wherever it is; its memory   *)
(* is gone and the files stay as they are                                  *)
Interrupt ==
    /\ pc \notin {"idle", "done"}
    /\ pc' = "idle"
    /\ call' = "none"
    /\ idx' = 0
    /\ cache' = EmptyDict
    /\ loc' = EmptyRec /\ start' = EmptyRec /\ att' = 0 /\ req' = NoReq
    /\ enriched' = <<>>
    /\ tvids' = NoTvIds
    /\ UNCHANGED <<run, creds, lib, disk, saved, given, disk1>>
    /\ UNCHANGED <<pick, scan, others>>

Next ==
    \/ StartRun
    \/ BeginItem
    \/ SearchAttempt(FALSE)
    \/ DetailsFetch(FALSE)
    \/ SaveOpen
    \/ SaveDump
    \/ NextCall
    \/ EpisodeCached
    \/ EpisodeLookup(FALSE)
    \/ EpisodeDump
    \/ FinishRun(FALSE)
    \/ Interrupt

Spec == Init /\ [][Next]_vars

(* The same runs with a provider that supplies no new data after run 1 and *)
(* without interruption: every run completes.                              *)
NextNoNew ==
    \/ StartRun
    \/ BeginItem
    \/ SearchAttempt(TRUE)
    \/ DetailsFetch(TRUE)
    \/ SaveOpen
    \/ SaveDump
    \/ NextCall
    \/ EpisodeCached
    \/ EpisodeLookup(TRUE)
    \/ EpisodeDump
    \/ FinishRun(TRUE)

SpecNoNew == Init /\ [][NextNoNew]_vars

(* ------------------------------------------------------- scoring a result list *)
(* The result list of one search document, result by result, and the pick  *)
(* of _pick_best_movie / _pick_best_tv for it.  A result is its position   *)
(* in the provider's list and its _sim_score (in hundredths): the lowest   *)
(* score a result can have and a high one.                                 *)
MaxList == 11
Scores == {LowestScore, 105}

pipeline == <<run, creds, lib, disk, pc, call, idx, cache, loc, start, att, req,
              enriched, tvids, saved, given, disk1>>

InitPick == InitPipeline /\ lib = LibMovies /\ pick = NoPick /\ scan = NoScan /\ InitOthers

AddResult ==
    /\ ~pick.done
    /\ Len(pick.results) < MaxList
    /\ \E sc \in Scores :
         pick' = [pick EXCEPT !.results = Append(@, [id |-> Len(@) + 1, sc |-> sc])]
    /\ UNCHANGED <<pipeline, scan, others>>

PickBest ==
    /\ ~pick.done
    /\ pick' = [pick EXCEPT !.best = _pick_best(Some(pick.results)), !.done = TRUE]
    /\ UNCHANGED <<pipeline, scan, others>>

NextPick ==
    \/ AddResult
    \/ PickBest

SpecPick == InitPick /\ [][NextPick]_vars

(* ---------------------------------------------------------------- discovery *)
(* A library root is a tree of nodes: a file with its size and modified    *)
(* time, or a directory with its entries.  Names are sequences of the      *)
(* symbols below; SymbolOrder lists them in the order Python compares the  *)
(* strings they stand for (no symbol is a prefix of another, so comparing  *)
(* names symbol by symbol is comparing the strings).                       *)
SymbolOrder == << " ", ".", "0-ARCHIVED", "1080p", "1999", "A", "C", "S01E01", "S1E1",
                  "S1E2", "S2E1", "_cinema_site", "a", "b", "c", "d", "mkv", "txt" >>

MaxSize == 2

OUTPUT_DIR_NAME == <<"_cinema_site">>
ARCHIVED_DIR_NAME == <<"0-ARCHIVED">>
EXCLUDED_DIRS == {OUTPUT_DIR_NAME}
VIDEO_EXTS == {<<".", "mkv">>}
QUALITY_SET == {<<"1080p">>}

File(name, size, mtime) ==
    [name |-> name, dir |-> FALSE, size |-> size, mtime |-> mtime, kids |-> {}]
Dir(name, kids) ==
    [name |-> name, dir |-> TRUE, size |-> 0, mtime |-> 0, kids |-> kids]

SymbolRank(c) == CHOOSE k \in 1..Len(SymbolOrder) : SymbolOrder[k] = c

(* a < b on str *)
RECURSIVE NameLess(_, _)
NameLess(a, b) ==
    IF a = <<>> THEN b # <<>>
    ELSE IF b = <<>> THEN FALSE
    ELSE IF Head(a) = Head(b) THEN NameLess(Tail(a), Tail(b))
    ELSE SymbolRank(Head(a)) < SymbolRank(Head(b))

(* sorted(os.listdir(d)) *)
RECURSIVE sorted(_)
sorted(S) ==
    IF S = {} THEN <<>>
    ELSE LET m == CHOOSE x \in S : \A y \in S \ {x} : NameLess(x.name, y.name)
         IN  <<m>> \o sorted(S \ {m})

(* entry.startswith(".") *)
Hidden(name) == name # <<>> /\ Head(name) = "."

(* os.path.splitext: the extension starts at the last dot, unless only     *)
(* dots come before it                                                     *)
splitext(name) ==
    LET dots == {k \in 1..Len(name) : name[k] = "." /\ \E j \in 1..(k - 1) : name[j] # "."}
    IN  IF dots = {} THEN [base |-> name, ext |-> <<>>]
        ELSE LET k == CHOOSE d \in dots : \A o \in dots : o <= d
             IN  [base |-> SubSeq(name, 1, k - 1), ext |-> SubSeq(name, k, Len(name))]

IsVideo(name) == Lower(splitext(name).ext) \in VIDEO_EXTS

(* the digits names are written in; a year token stands for its four digits *)
Digits == {"0", "1", "2", "9"}
DigitValue(c) == CASE c = "0" -> 0 [] c = "1" -> 1 [] c = "2" -> 2 [] c = "9" -> 9

RECURSIVE Spell(_)
Spell(s) ==
    IF s = <<>> THEN <<>>
    ELSE IF Head(s) \in YearTokens THEN <<"1", "9", "9", "9">> \o Spell(Tail(s))
    ELSE <<Head(s)>> \o Spell(Tail(s))

(* YEAR_RE, line 113: (19\d{2}|20\d{2}) matches at position k; the pattern *)
(* has no \b, so the four digits may stand inside a longer run             *)
YEAR_RE(s, k) ==
    /\ k + 3 <= Len(s)
    /\ <<s[k], s[k + 1]>> \in {<<"1", "9">>, <<"2", "0">>}
    /\ s[k + 2] \in Digits /\ s[k + 3] \in Digits

(* int(m.group(1)) of the match at position k *)
YearValue(s, k) ==
    1000 * DigitValue(s[k]) + 100 * DigitValue(s[k + 1])
        + 10 * DigitValue(s[k + 2]) + DigitValue(s[k + 3])

(* parse_title_year_from_folder, lines 115-126 *)
parse_title_year_from_folder(name) ==
    LET t == Spell(Collapse(SubRuns(SubEach(name, {"."}, <<" ">>), {"_"}, <<" ">>)))
        ys == {k \in 1..Len(t) : YEAR_RE(t, k)}
    IN  IF ys = {} THEN [title |-> t, year |-> None]
        ELSE LET k == CHOOSE y \in ys : \A o \in ys : y <= o
             IN  [title |-> Collapse(SubSeq(t, 1, k - 1)), year |-> Some(YearValue(t, k))]

(* safe_size / safe_mtime of a path: what the file system reports *)
safe_size(fp) == fp.size
safe_mtime(fp) == fp.mtime

(* find_video_in_folder, lines 128-142: the largest video file of the top  *)
(* level; os.walk lists the files in no particular order, so among the     *)
(* largest any may be the first seen                                       *)
find_video_in_folder(folder) ==
    LET vids == {f \in folder.kids : ~f.dir /\ IsVideo(f.name)}
    IN  IF vids = {} THEN {None}
        ELSE {Some(f) : f \in {v \in vids : \A o \in vids : safe_size(o) <= safe_size(v)}}

(* variant of line 172: the archived pool starts its ids again at 1 *)
ArchivedStartId_one(next_id) == 1

(* line 172: start_id = next_id *)
ArchivedStartId(next_id) == next_id

(* discover_video_pool, lines 147-165: one entry of the listing; base is   *)
(* the path of base_dir under root, vid the pick of find_video_in_folder   *)
PoolStep(sc, entry, base, vid) ==
    LET archived == sc.pool = "archived"
        skip == \/ Hidden(entry.name)
                \/ entry.name \in EXCLUDED_DIRS
                \/ (~archived /\ entry.name = ARCHIVED_DIR_NAME)
                \/ (~entry.dir /\ ~IsVideo(entry.name))
        parsed == IF entry.dir THEN parse_title_year_from_folder(entry.name)
                  ELSE parse_title_year_from_folder(splitext(entry.name).base)
        path == IF entry.dir
                THEN (IF vid = None THEN <<>> ELSE base \o <<entry.name, vid[1].name>>)
                ELSE base \o <<entry.name>>
        mtime == IF entry.dir THEN (IF vid = None THEN 0 ELSE safe_mtime(vid[1]))
                 ELSE safe_mtime(entry)
        item == [id |-> <<sc.prefix, sc.i>>, title |-> parsed.title, year |-> parsed.year,
                 abs_path |-> path, source |-> entry.name, archived |-> archived,
                 mtime |-> mtime]
    IN  IF skip THEN [sc EXCEPT !.todo = Tail(@)]
        ELSE [sc EXCEPT !.todo = Tail(@), !.items = Append(@, item), !.i = @ + 1]

(* ---- shows ---- *)
(* the S<n>E<n> markers file names are written with; a marker stands for   *)
(* its characters                                                          *)
EpTokens == {"S01E01", "S1E1", "S1E2", "S2E1"}
SpellToken(tok) ==
    CASE tok = "S01E01" -> <<"S", "0", "1", "E", "0", "1">>
      [] tok = "S1E1" -> <<"S", "1", "E", "1">>
      [] tok = "S1E2" -> <<"S", "1", "E", "2">>
      [] tok = "S2E1" -> <<"S", "2", "E", "1">>
      [] OTHER -> <<tok>>

RECURSIVE SpellMarkers(_)
SpellMarkers(s) ==
    IF s = <<>> THEN <<>> ELSE SpellToken(Head(s)) \o SpellMarkers(Tail(s))

(* \w: letters, digits, "_" *)
ScanWordChars ==
    WordChars \cup Digits \cup {"S", "s", "E", "e"} \cup {"1080p", "mkv", "txt"}

(* the first position from i on whose character is not in P *)
RECURSIVE SkipIn(_, _, _)
SkipIn(s, i, P) == IF i <= Len(s) /\ s[i] \in P THEN SkipIn(s, i + 1, P) ELSE i

(* int() of the one or two digits s[i..j-1] *)
IntOf(s, i, j) ==
    IF j - i = 1 THEN DigitValue(s[i]) ELSE 10 * DigitValue(s[i]) + DigitValue(s[i + 1])

(* SxxEyy_RE, line 176: \b[Ss]\s*(\d{1,2})\s*[.\-_ ]*[Ee]\s*(\d{1,2})\b  *)
(* matched at position k: the groups and the end of the match, or None.    *)
(* A digit cannot be matched by what follows a group, so each group is a   *)
(* whole run of digits.                                                    *)
SxxEyy_RE(s, k) ==
    LET b == SkipIn(s, k + 1, Space)
        c == SkipIn(s, b, Digits)
        d == SkipIn(s, c, {".", "-", "_", " "})
        e == SkipIn(s, d + 1, Space)
        f == SkipIn(s, e, Digits)
    IN  IF /\ s[k] \in {"S", "s"}
           /\ (k = 1 \/ s[k - 1] \notin ScanWordChars)
           /\ c - b \in 1..2
           /\ d <= Len(s) /\ s[d] \in {"E", "e"}
           /\ f - e \in 1..2
           /\ (f > Len(s) \/ s[f] \notin ScanWordChars)
        THEN Some([season |-> IntOf(s, b, c), episode |-> IntOf(s, e, f), end |-> f])
        ELSE None

(* clean_name, lines 179-183 *)
clean_name(t) == Collapse(SubEach(t, {"_", "."}, <<" ">>))

(* lines 194-198: the tokens of the tail up to the first quality token *)
RECURSIVE TitleTokens(_)
TitleTokens(tokens) ==
    IF tokens = <<>> \/ Head(tokens) \in QUALITY_SET THEN <<>>
    ELSE <<Head(tokens)>> \o TitleTokens(Tail(tokens))

(* parse_show_from_string, lines 185-199 *)
parse_show_from_string(text) ==
    LET t == SpellMarkers(clean_name(text))
        ms == {k \in 1..Len(t) : SxxEyy_RE(t, k) # None}
    IN  IF ms = {} THEN None
        ELSE LET k == CHOOSE m \in ms : \A o \in ms : m <= o
                 g == SxxEyy_RE(t, k)[1]
             IN  Some([show |-> StripSeq(SubSeq(t, 1, k - 1)),
                       season |-> g.season, episode |-> g.episode,
                       ep_title |-> JoinWords(TitleTokens(
                                       SplitWords(SubSeq(t, g.end, Len(t)), <<>>)))])

(* variant of line 209: the later of two files of equal size wins *)
Larger_or_equal(size, item) == size >= item.size

(* line 209: size > item.get("size", 0) *)
Larger(size, item) == size > item.size

(* variant of lines 207-208: no record is recognised as the same episode *)
SameEpisode_never(lst, epnum) == {}

(* lines 207-208: the records of the season list with this episode number *)
SameEpisode(lst, epnum) == {k \in 1..Len(lst) : lst[k].e = epnum}

(* _add_or_update_episode, lines 201-216; the season key str(season) is    *)
(* the season number                                                       *)
_add_or_update_episode(meta_for_show, season, epnum, title, file_path) ==
    LET lst == Get(meta_for_show.seasons, season, <<>>)
        size == safe_size(file_path)
        mtime == safe_mtime(file_path)
        same == SameEpisode(lst, epnum)
        new == IF same = {}
               THEN Append(lst, [eid |-> None, s |-> season, e |-> epnum, title |-> title,
                                 file |-> file_path.path, size |-> size, mtime |-> mtime])
               ELSE LET k == CHOOSE m \in same : \A o \in same : m <= o
                        a == IF Larger(size, lst[k])
                             THEN [lst[k] EXCEPT !.file = file_path.path, !.size = size,
                                                 !.mtime = mtime]
                             ELSE lst[k]
                        b == IF a.title = <<>> /\ title # <<>>
                             THEN [a EXCEPT !.title = title] ELSE a
                    IN  [lst EXCEPT ![k] = b]
    IN  [meta_for_show EXCEPT !.seasons = Put(@, season, new)]

(* line 232: key = show_title.lower() *)
ShowKey(show_title) == Lower(show_title)

(* handle_file, lines 225-244 *)
handle_file(sc, node, path) ==
    LET parsed == parse_show_from_string(node.name)
    IN  IF node.dir \/ ~IsVideo(node.name) \/ parsed = None THEN sc
        ELSE LET key == ShowKey(parsed[1].show)
                 fresh == key \notin DOMAIN sc.shows_map
                 sid == IF fresh THEN sc.show_id_seq ELSE sc.shows_map[key]
                 meta == IF fresh THEN [title |-> parsed[1].show, seasons |-> <<>>]
                         ELSE sc.shows_meta[sid]
                 fp == [path |-> path, size |-> node.size, mtime |-> node.mtime]
             IN  [sc EXCEPT !.show_id_seq = IF fresh THEN @ + 1 ELSE @,
                            !.shows_map = Put(@, key, sid),
                            !.shows_meta = Put(@, sid,
                                _add_or_update_episode(meta, parsed[1].season,
                                    parsed[1].episode, parsed[1].ep_title, fp)),
                            !.handled = Append(@, [sid |-> sid, s |-> parsed[1].season,
                                                   e |-> parsed[1].episode, fp |-> fp])]

(* line 250-251: handle_file for every entry of a directory, sorted *)
RECURSIVE HandleAll(_, _, _)
HandleAll(sc, files, dirname) ==
    IF files = <<>> THEN sc
    ELSE HandleAll(handle_file(sc, Head(files), <<dirname, Head(files).name>>),
                   Tail(files), dirname)

(* lines 246-253: one entry of the listing of shows_root *)
ShowStep(sc, entry) ==
    LET rest == [sc EXCEPT !.todo = Tail(@)]
    IN  IF Hidden(entry.name) \/ entry.name \in EXCLUDED_DIRS THEN rest
        ELSE IF entry.dir THEN HandleAll(rest, sorted(entry.kids), entry.name)
        ELSE handle_file(rest, entry, <<entry.name>>)

(* f"{n:02d}" *)
Pad2(n) == IF n < 100 THEN <<n \div 10, n % 10>> ELSE <<n \div 100, (n \div 10) % 10, n % 10>>

(* line 261: eid = f"{sid}_S{int(skey):02d}E{item['e']:02d}" *)
Eid(sid, season, epnum) == <<"tv", sid, "_S", Pad2(season), "E", Pad2(epnum)>>

(* line 259: eps.sort(key=lambda x: x["e"]), a stable sort *)
RECURSIVE SortEps(_)
SortEps(eps) ==
    IF eps = <<>> THEN <<>>
    ELSE LET k == CHOOSE m \in 1..Len(eps) :
                     /\ \A o \in 1..Len(eps) : eps[m].e <= eps[o].e
                     /\ \A o \in 1..(m - 1) : eps[o].e # eps[m].e
         IN  <<eps[k]>> \o SortEps(SubSeq(eps, 1, k - 1) \o SubSeq(eps, k + 1, Len(eps)))

(* lines 255-263: the seasons sorted and every record given its eid *)
WithEids(sc) ==
    [sid \in DOMAIN sc.shows_meta |->
        [sc.shows_meta[sid] EXCEPT !.seasons =
            [season \in DOMAIN @ |->
                LET eps == SortEps(@[season])
                IN  [k \in 1..Len(eps) |->
                        [eps[k] EXCEPT !.eid = Some(Eid(sid, season, eps[k].e))]]]]]

(* the episode records of shows_meta, each with its show and its place *)
EpisodeRecords(meta) ==
    UNION {UNION {{[sid |-> sid, season |-> season, k |-> k,
                    item |-> meta[sid].seasons[season][k]] :
                       k \in 1..Len(meta[sid].seasons[season])} :
                  season \in DOMAIN meta[sid].seasons} : sid \in DOMAIN meta}

(* lines 256-263: episodes_index[eid] = item["file"]; a later record with  *)
(* the same eid replaces an earlier one                                    *)
IndexOf(meta) ==
    LET recs == EpisodeRecords(meta)
        eids == {r.item.eid[1] : r \in recs}
    IN  [eid \in eids |->
            LET same == {r \in recs : r.item.eid[1] = eid}
                last == CHOOSE r \in same : \A o \in same :
                            o.season < r.season \/ (o.season = r.season /\ o.k <= r.k)
            IN  last.item.file]

(* lines 266-275: one card per show, in the order the shows were first seen *)
ShowsList(sc) ==
    [n \in 1..(sc.show_id_seq - 1) |->
        [id |-> <<"tv", n>>, title |-> sc.shows_meta[n].title]]

(* ---- the roots that are scanned ---- *)
Sizes == 0..MaxSize
Opt(S) == {{}} \cup {{x} : x \in S}

Name_Ab == <<"A", " ", "b", " ", "1999">>
MovieFolders ==
    {Dir(Name_Ab, {})} \cup
    {Dir(Name_Ab, {File(<<"A", ".", "mkv">>, sz, 21)} \cup other) :
        sz \in Sizes,
        other \in Opt({File(<<".", "A", ".", "mkv">>, MaxSize, 22),
                       File(<<"b", ".", "mkv">>, 1, 24)})}
ArchivedEntries ==
    { Dir(<<"C", " ", "1999">>, {File(<<"c", ".", "mkv">>, 1, 29)}),
      File(<<".", "b", ".", "mkv">>, 1, 30),
      Dir(OUTPUT_DIR_NAME, {}) }
MovieRoots ==
    {a \cup b \cup c \cup d \cup e \cup f :
        a \in Opt(MovieFolders),
        b \in Opt({File(<<"C", "d", ".", "mkv">>, 1, 25)}),
        c \in Opt({File(<<"a", ".", "txt">>, 1, 26)}),
        d \in Opt({Dir(<<".", "d">>, {File(<<"a", ".", "mkv">>, 1, 27)})}),
        e \in Opt({Dir(OUTPUT_DIR_NAME, {File(<<"b", ".", "mkv">>, 1, 28)})}),
        f \in Opt({Dir(ARCHIVED_DIR_NAME, k) : k \in SUBSET ArchivedEntries})}

ShowFolders ==
    {Dir(<<"C", "d">>, a \cup b \cup c) :
        a \in Opt({File(<<"C", "d", " ", "S1E1", ".", "mkv">>, sz, 11) : sz \in Sizes}),
        b \in Opt({File(<<"c", "d", " ", "S01E01", " ", "1080p", ".", "mkv">>, sz, 12) :
                      sz \in Sizes}),
        c \in Opt({File(<<".", "C", "d", " ", "S1E2", ".", "mkv">>, 1, 13)})}
ShowRoots ==
    {a \cup b \cup c \cup d \cup e :
        a \in Opt(ShowFolders),
        b \in Opt({File(<<"C", "d", ".", "S1E1", ".", "a", ".", "mkv">>, sz, 14) : sz \in Sizes}),
        c \in Opt({File(<<"a", "b", " ", "S2E1", ".", "mkv">>, 1, 15)}),
        d \in Opt({Dir(<<".", "d">>, {File(<<"a", "b", " ", "S1E1", ".", "mkv">>, 1, 16)})}),
        e \in Opt({Dir(OUTPUT_DIR_NAME, {File(<<"a", "b", " ", "S1E2", ".", "mkv">>, 1, 17)})})}

(* discover_category(root, id_prefix) at line 147 of its first pool, and   *)
(* discover_shows(shows_root) at line 246: the listing is sorted           *)
Scans ==
    {[NoScan EXCEPT !.phase = "pool", !.prefix = p, !.root = r, !.pool = "active",
                    !.todo = sorted(r)] : p \in {"m", "s"}, r \in MovieRoots}
    \cup {[NoScan EXCEPT !.phase = "shows", !.prefix = "tv", !.root = r,
                         !.todo = sorted(r)] : r \in ShowRoots}

InitScan == InitPipeline /\ lib = LibMovies /\ pick = NoPick /\ scan \in Scans /\ InitOthers

(* discover_video_pool, lines 147-165: the loop takes the next entry *)
PoolEntry ==
    /\ scan.phase = "pool"
    /\ scan.todo # <<>>
    /\ LET entry == Head(scan.todo)
           base == IF scan.pool = "active" THEN <<>> ELSE <<ARCHIVED_DIR_NAME>>
       IN  \E vid \in (IF entry.dir THEN find_video_in_folder(entry) ELSE {None}) :
               scan' = PoolStep(scan, entry, base, vid)
    /\ UNCHANGED <<pipeline, pick, others>>

(* lines 166 and 170-173: a pool is done; after the root's pool comes the  *)
(* pool of the archived directory (empty when it is not a directory)       *)
PoolDone ==
    /\ scan.phase = "pool"
    /\ scan.todo = <<>>
    /\ IF scan.pool = "active"
       THEN LET arch == {n \in scan.root : n.name = ARCHIVED_DIR_NAME /\ n.dir}
            IN  scan' = [scan EXCEPT !.pool = "archived",
                                     !.i = ArchivedStartId(@),
                                     !.todo = sorted(UNION {n.kids : n \in arch})]
       ELSE scan' = [scan EXCEPT !.phase = "done"]
    /\ UNCHANGED <<pipeline, pick, others>>

(* discover_shows, lines 246-253: the loop takes the next entry *)
ShowEntry ==
    /\ scan.phase = "shows"
    /\ scan.todo # <<>>
    /\ scan' = ShowStep(scan, Head(scan.todo))
    /\ UNCHANGED <<pipeline, pick, others>>

(* discover_shows, lines 255-276 *)
ShowsIndex ==
    /\ scan.phase = "shows"
    /\ scan.todo = <<>>
    /\ LET meta == WithEids(scan)
       IN  scan' = [scan EXCEPT !.phase = "done", !.shows_meta = meta,
                                !.episodes_index = IndexOf(meta),
                                !.shows_list = ShowsList(scan)]
    /\ UNCHANGED <<pipeline, pick, others>>

NextScan ==
    \/ PoolEntry
    \/ PoolDone
    \/ ShowEntry
    \/ ShowsIndex

SpecScan == InitScan /\ [][NextScan]_vars

(* ------------------------------------------------------------ the parsers *)
(* One call of parse_title_year_from_folder, of parse_show_from_string or   *)
(* of try_search_variants: the argument is drawn at Init, the call is one   *)
(* step.                                                                    *)
MaxName == 6

(* the folder names handed to parse_title_year_from_folder *)
NameChars == {"A", ".", "1", "9"}
FolderNames == UNION {[1..n -> NameChars] : n \in 1..MaxName}
YearCalls == {[fn |-> "year", arg |-> n, out |-> <<>>, done |-> FALSE] : n \in FolderNames}

(* the file names handed to parse_show_from_string: text before the        *)
(* marker, S, season digits, separators, E, episode digits, text after it; *)
(* and names without a marker                                              *)
Marked ==
    {[text |-> pre \o <<S>> \o g \o sd \o sep \o <<E>> \o g \o ed \o suf,
      mark |-> Some([pre |-> pre, sd |-> sd, ed |-> ed])] :
        pre \in {<<>>, <<"A", ".">>, <<"A">>},
        S \in {"S", "s"},
        g \in {<<>>, <<".">>},
        sd \in {<<"1">>, <<"0", "1">>, <<"1", "2">>},
        sep \in {<<>>, <<".">>, <<"-">>, <<" ", "-", " ">>},
        E \in {"E", "e"},
        ed \in {<<"2">>, <<"0", "2">>, <<"1", "0">>},
        suf \in {<<>>, <<".", "A">>, <<"E", "0", "9">>}}
Unmarked ==
    {[text |-> t, mark |-> None] :
        t \in {<<"A">>, <<"A", ".", "S", "1">>, <<"A", ".", "E", "1">>, <<"S", "E">>,
               <<"A", ".", "1", "9", "9", "9">>}}
ShowCalls ==
    {[fn |-> "show", arg |-> a, out |-> <<>>, done |-> FALSE] : a \in Marked \cup Unmarked}

(* the titles handed to try_search_variants and try_tv_variants: up to     *)
(* MaxWords words separated by single spaces                               *)
MaxWords == 4
TitleWords == {<<"A">>, <<"b">>, <<"A", ".", "b">>, <<"c", "-", "d">>, <<"A", ":">>}
Titles == {JoinWords(ws) : ws \in SeqsUpTo(TitleWords, MaxWords) \ {<<>>}}
VariantCalls ==
    {[fn |-> "variants", arg |-> [title |-> t, year |-> y, force_yearless |-> fy],
      out |-> <<>>, done |-> FALSE] :
        t \in Titles, y \in {None, Some(1999)}, fy \in BOOLEAN}
TvVariantCalls ==
    {[fn |-> "tv_variants", arg |-> t, out |-> <<>>, done |-> FALSE] :
        t \in Titles \cup {t \o <<" ", "1999">> : t \in Titles}
                     \cup {t \o <<" ", "1999", " ", "1999">> : t \in Titles}}

ParseCalls == YearCalls \cup ShowCalls \cup VariantCalls \cup TvVariantCalls

InitParse ==
    /\ InitPipeline /\ lib = LibMovies /\ pick = NoPick /\ scan = NoScan
    /\ parse \in ParseCalls
    /\ asset = NoAsset /\ serve = NoServe /\ race = NoRace /\ tool = NoTool

(* line 153 / 160: title, year = parse_title_year_from_folder(...) *)
ParseYear ==
    /\ parse.fn = "year" /\ ~parse.done
    /\ parse' = [parse EXCEPT !.out = parse_title_year_from_folder(parse.arg),
                              !.done = TRUE]
    /\ UNCHANGED <<pipeline, pick, scan, asset, serve, race, tool>>

(* lines 227, 259: info = parse_show_from_string(fname) *)
ParseShow ==
    /\ parse.fn = "show" /\ ~parse.done
    /\ parse' = [parse EXCEPT !.out = parse_show_from_string(parse.arg.text),
                              !.done = TRUE]
    /\ UNCHANGED <<pipeline, pick, scan, asset, serve, race, tool>>

(* try_search_variants, lines 407-471: the text variants it builds and the *)
(* provider searches it makes when none of them is accepted                *)
TrySearchVariants ==
    /\ parse.fn = "variants" /\ ~parse.done
    /\ LET a == parse.arg
       IN  parse' = [parse EXCEPT
                !.out = [variants |-> TextVariants(a.title, a.force_yearless),
                         searches |-> MovieSearches(a.title, a.year, a.force_yearless)],
                !.done = TRUE]
    /\ UNCHANGED <<pipeline, pick, scan, asset, serve, race, tool>>

(* try_tv_variants, lines 606-623: the provider searches it makes when     *)
(* none of them is accepted                                                *)
TryTvVariants ==
    /\ parse.fn = "tv_variants" /\ ~parse.done
    /\ parse' = [parse EXCEPT !.out = [searches |-> TvSearches(parse.arg)],
                              !.done = TRUE]
    /\ UNCHANGED <<pipeline, pick, scan, asset, serve, race, tool>>

NextParse ==
    \/ ParseYear
    \/ ParseShow
    \/ TrySearchVariants
    \/ TryTvVariants

SpecParse == InitParse /\ [][NextParse]_vars

(* ----------------------------------------------------------- poster cache *)
(* The poster step of enrich_movies (lines 504-515) and of enrich_shows     *)
(* (lines 655-665), for the entities of one call in order.  items holds the *)
(* poster_url each entity has when its record has been saved, files the     *)
(* posters directory, downloads the urls requested, out the poster          *)
(* reference each entity leaves the loop body with.                         *)
MaxPosters == 3
CACHE_POSTERS == TRUE

PosterUrls == {"", "https://image.tmdb.org/t/p/w342/p1.jpg",
               "https://image.tmdb.org/t/p/w342/p2.jpg", "https://image.tmdb.org/t/p/w342/"}

(* os.path.basename(urllib.parse.urlparse(poster_url).path) *)
UrlBasename(url) ==
    CASE url = "https://image.tmdb.org/t/p/w342/p1.jpg" -> "p1.jpg"
      [] url = "https://image.tmdb.org/t/p/w342/p2.jpg" -> "p2.jpg"
      [] OTHER -> ""

(* lines 507-508: basename or f"{item['id']}.jpg" *)
LocalName(item) ==
    IF UrlBasename(item.poster_url) # "" THEN UrlBasename(item.poster_url)
    ELSE ToString(item.id) \o ".jpg"

(* download_file, lines 296-304: urlopen raises and no file is made, or    *)
(* the copy raises and leaves a partial file, or the file is written       *)
Outcomes == {"written", "refused", "cut"}
download_file(files, local, outcome) ==
    CASE outcome = "written" -> [ok |-> TRUE, files |-> Put(files, local, "whole")]
      [] outcome = "cut" -> [ok |-> FALSE, files |-> Put(files, local, "partial")]
      [] OTHER -> [ok |-> FALSE, files |-> files]

(* variant of lines 509-510: the local reference is set whether or not the *)
(* download succeeded                                                      *)
local_poster_anyway(isfile, downloaded, ref) == ref

(* lines 509-512 *)
local_poster(isfile, downloaded, ref) ==
    IF ~isfile THEN (IF downloaded THEN ref ELSE "") ELSE ref

PosterLists ==
    UNION {[1..n -> PosterUrls] : n \in 1..MaxPosters}
PosterDirs ==
    UNION {[S -> {"whole", "partial"}] : S \in SUBSET {"p1.jpg", "p2.jpg"}}
AssetRuns ==
    {[phase |-> "run", dir |-> dir,
      items |-> [k \in 1..Len(ps) |-> [id |-> k, poster_url |-> ps[k]]],
      i |-> 1, files |-> fs, downloads |-> <<>>, out |-> <<>>] :
        dir \in {"posters/", "posters_tv/"}, ps \in PosterLists, fs \in PosterDirs}

InitAsset ==
    /\ InitPipeline /\ lib = LibMovies /\ pick = NoPick /\ scan = NoScan
    /\ asset \in AssetRuns
    /\ parse = NoParse /\ serve = NoServe /\ race = NoRace /\ tool = NoTool

(* lines 504-515 and 655-665, for the entity at i *)
CachePoster ==
    /\ asset.phase = "run" /\ asset.i <= Len(asset.items)
    /\ LET item == asset.items[asset.i]
           poster_url == item.poster_url
           local == LocalName(item)
           isfile == local \in DOMAIN asset.files
       IN  IF CACHE_POSTERS /\ poster_url # ""
           THEN IF ~isfile
                THEN \E outcome \in Outcomes :
                       LET d == download_file(asset.files, local, outcome)
                           lp == local_poster(isfile, d.ok, asset.dir \o local)
                       IN  asset' = [asset EXCEPT
                                !.files = d.files,
                                !.downloads = Append(@, poster_url),
                                !.out = Append(@, IF lp # "" THEN lp ELSE poster_url),
                                !.i = @ + 1]
                ELSE LET lp == local_poster(isfile, FALSE, asset.dir \o local)
                     IN  asset' = [asset EXCEPT
                              !.out = Append(@, IF lp # "" THEN lp ELSE poster_url),
                              !.i = @ + 1]
           ELSE asset' = [asset EXCEPT !.out = Append(@, poster_url), !.i = @ + 1]
    /\ UNCHANGED <<pipeline, pick, scan, parse, serve, race, tool>>

(* line 526 / 683: the loop is over, the call returns *)
AssetReturn ==
    /\ asset.phase = "run" /\ asset.i > Len(asset.items)
    /\ asset' = [asset EXCEPT !.phase = "done"]
    /\ UNCHANGED <<pipeline, pick, scan, parse, serve, race, tool>>

NextAsset ==
    \/ CachePoster
    \/ AssetReturn

SpecAsset == InitAsset /\ [][NextAsset]_vars

(* ----------------------------------------------------------------- server *)
(* build_site writes the index of one category (lines 1090-1095,            *)
(* 1156-1181) and CinemaHandler answers play requests from it.  A path is a *)
(* sequence of pieces, so that str.startswith is the prefix relation; fs    *)
(* says of each path whether it is a file and what os.path.realpath gives.  *)
MaxEntries == 2
MaxRequests == 2

Root == <<"/", "Movies">>
VideoA == Root \o <<"/", "A.mkv">>
VideoB == Root \o <<"/", "b.mkv">>
Sibling == <<"/", "Movies", "2", "/", "A.mkv">>
Outside == <<"/", "Other", "/", "A.mkv">>

IsPrefix(p, q) == Len(p) <= Len(q) /\ SubSeq(q, 1, Len(p)) = p

(* the index of a movie-like category, lines 1156, 1164, 1172:             *)
(* {m["id"]: m["abs_path"] for m in movies if m["abs_path"]}               *)
DictOf(entries, keep) ==
    [id \in {entries[k].id : k \in keep} |->
        LET last == CHOOSE k \in keep :
                        /\ entries[k].id = id
                        /\ \A o \in keep : entries[o].id = id => o <= k
        IN  entries[last].abs_path]

(* variant of line 1156: every entry is written to the index *)
category_index_all(entries) == DictOf(entries, DOMAIN entries)

category_index(entries) ==
    DictOf(entries, {k \in DOMAIN entries : entries[k].abs_path # <<>>})

(* lines 1091-1095: episodes_index[ep["eid"]] = ep["file"] *)
episodes_index(entries) == DictOf(entries, DOMAIN entries)

(* os.path.isfile and os.path.realpath, as the file system answers *)
isfile(fs, p) == p \in DOMAIN fs /\ fs[p].file
realpath(fs, p) == IF p \in DOMAIN fs THEN fs[p].real ELSE p

(* _launch, lines 1446-1456: the process is started unless the real path   *)
(* does not start with the real root                                       *)
_launch(fs, filepath, base_root) ==
    IF ~IsPrefix(realpath(fs, base_root), realpath(fs, filepath)) THEN <<>>
    ELSE <<filepath>>

(* lines 1352-1356 and 1436-1439: the processes one play request starts *)
Play(sv, id) ==
    LET filepath == Get(sv.index, id, <<>>)
    IN  IF filepath # <<>> /\ isfile(sv.fs, filepath)
        THEN _launch(sv.fs, filepath, Root)
        ELSE <<>>

EntryLists ==
    UNION {[1..n -> {<<>>, VideoA, VideoB}] : n \in 0..MaxEntries}
FileStates(p) ==
    {[file |-> FALSE, real |-> p], [file |-> TRUE, real |-> p],
     [file |-> TRUE, real |-> Sibling], [file |-> TRUE, real |-> Outside]}
FileSystems ==
    {[p \in {VideoA, VideoB} |-> IF p = VideoA THEN a ELSE b] :
        a \in FileStates(VideoA), b \in FileStates(VideoB)}
Sites ==
    {[phase |-> "build", cat |-> cat,
      entries |-> [k \in 1..Len(ps) |-> [id |-> ToString(k), abs_path |-> ps[k]]],
      fs |-> fs, index |-> <<>>, reqs |-> <<>>, launched |-> <<>>] :
        cat \in {"movies", "standup", "docs", "episodes"}, ps \in EntryLists,
        fs \in FileSystems}
RequestIds == {ToString(k) : k \in 1..MaxEntries} \cup {"", "x"}

(* an episode record always has its file: handle_file is called with one *)
InitServe ==
    /\ InitPipeline /\ lib = LibMovies /\ pick = NoPick /\ scan = NoScan
    /\ serve \in {sv \in Sites : sv.cat = "episodes" =>
                        \A k \in DOMAIN sv.entries : sv.entries[k].abs_path # <<>>}
    /\ parse = NoParse /\ asset = NoAsset /\ race = NoRace /\ tool = NoTool

(* build_site, lines 1156-1181: dump_json of the category's index *)
DumpIndex ==
    /\ serve.phase = "build"
    /\ serve' = [serve EXCEPT
            !.phase = "serve",
            !.index = IF serve.cat = "episodes" THEN episodes_index(serve.entries)
                      ELSE category_index(serve.entries)]
    /\ UNCHANGED <<pipeline, pick, scan, parse, asset, race, tool>>

(* launch_and_render, lines 1348-1359: GET /play_movie?id=, /play_standup, *)
(* /play_doc                                                               *)
launch_and_render ==
    /\ serve.phase = "serve" /\ serve.cat # "episodes"
    /\ Len(serve.reqs) < MaxRequests
    /\ \E mid \in RequestIds :
          serve' = [serve EXCEPT !.reqs = Append(@, mid),
                                 !.launched = @ \o Play(serve, mid)]
    /\ UNCHANGED <<pipeline, pick, scan, parse, asset, race, tool>>

(* launch_episode, lines 1432-1444: GET /play_ep?id= *)
launch_episode ==
    /\ serve.phase = "serve" /\ serve.cat = "episodes"
    /\ Len(serve.reqs) < MaxRequests
    /\ \E eid \in RequestIds :
          serve' = [serve EXCEPT !.reqs = Append(@, eid),
                                 !.launched = @ \o Play(serve, eid)]
    /\ UNCHANGED <<pipeline, pick, scan, parse, asset, race, tool>>

NextServe ==
    \/ DumpIndex
    \/ launch_and_render
    \/ launch_episode

SpecServe == InitServe /\ [][NextServe]_vars

(* ------------------------------------------------------- concurrent runs *)
(* Two runs of enrich_movies on the same library root, and so on the same   *)
(* cache file and the same keys in the same order.  A run loads the cache   *)
(* once (lines 388-389) and saves its own dict after every entity (lines    *)
(* 499-502); save_cache is open(path, "w"), which truncates, and json.dump. *)
(* A record is represented by the run that produced it.  Two runs that have *)
(* the file open at once write through separate descriptors from offset 0:  *)
(* the run that finishes last leaves its own text or, over a longer text of *)
(* the other run, an unreadable mix.                                        *)
MaxKeys == 2
Runs == {1, 2}
Other(r) == 3 - r
RaceKey(i) == "k" \o ToString(i)

(* variant of lines 291-294: save_cache writes the file's records together *)
(* with the dict's                                                         *)
save_cache_merged(file, c) ==
    [k \in DOMAIN file.data \cup DOMAIN c |-> IF k \in DOMAIN c THEN c[k] ELSE file.data[k]]

(* save_cache, lines 291-294: json.dump(cache, f) *)
save_cache(file, c) == c

InitRace ==
    /\ InitPipeline /\ lib = LibMovies /\ pick = NoPick /\ scan = NoScan
    /\ race = [phase |-> "run", file |-> [ok |-> TRUE, data |-> EmptyDict],
               runs |-> [r \in Runs |-> [pc |-> "start", mem |-> EmptyDict, i |-> 1,
                                         mixed |-> FALSE]],
               saved |-> {}, last |-> 0]
    /\ parse = NoParse /\ asset = NoAsset /\ serve = NoServe /\ tool = NoTool

(* lines 388-389: cache = load_cache(cache_path) *)
RaceLoad(r) ==
    /\ race.phase = "run" /\ race.runs[r].pc = "start"
    /\ race' = [race EXCEPT !.runs[r].pc = "item",
                            !.runs[r].mem = load_cache(race.file)]
    /\ UNCHANGED <<pipeline, pick, scan, parse, asset, serve, tool>>

(* lines 391-500: one pass of the loop up to cache[key] = {...}; the fields *)
(* the cached record has are kept                                          *)
RaceEnrich(r) ==
    /\ race.runs[r].pc = "item" /\ race.runs[r].i <= MaxKeys
    /\ LET k == RaceKey(race.runs[r].i)
           c == race.runs[r].mem
       IN  race' = [race EXCEPT !.runs[r].pc = "open",
                                !.runs[r].mem = Put(c, k, Get(c, k, r))]
    /\ UNCHANGED <<pipeline, pick, scan, parse, asset, serve, tool>>

(* line 293: open(path, "w") *)
RaceOpen(r) ==
    /\ race.runs[r].pc = "open"
    /\ race' = [race EXCEPT !.runs[r].pc = "dump", !.runs[r].mixed = FALSE,
                            !.file = TornFile]
    /\ UNCHANGED <<pipeline, pick, scan, parse, asset, serve, tool>>

(* line 293: json.dump(cache, f) and the close of the file *)
RaceDump(r) ==
    /\ race.runs[r].pc = "dump"
    /\ \E clean \in (IF race.runs[r].mixed THEN BOOLEAN ELSE {TRUE}) :
          race' = [race EXCEPT
              !.runs[r].pc = "item",
              !.runs[r].i = @ + 1,
              !.runs[Other(r)].mixed = @ \/ race.runs[Other(r)].pc = "dump",
              !.file = IF clean
                       THEN [ok |-> TRUE, data |-> save_cache(race.file, race.runs[r].mem)]
                       ELSE TornFile,
              !.saved = @ \cup {<<r, RaceKey(race.runs[r].i)>>},
              !.last = r]
    /\ UNCHANGED <<pipeline, pick, scan, parse, asset, serve, tool>>

(* line 526: return enriched *)
RaceReturn(r) ==
    /\ race.runs[r].pc = "item" /\ race.runs[r].i > MaxKeys
    /\ race' = [race EXCEPT !.runs[r].pc = "done"]
    /\ UNCHANGED <<pipeline, pick, scan, parse, asset, serve, tool>>

NextRace ==
    \/ \E r \in Runs : RaceLoad(r)
    \/ \E r \in Runs : RaceEnrich(r)
    \/ \E r \in Runs : RaceOpen(r)
    \/ \E r \in Runs : RaceDump(r)
    \/ \E r \in Runs : RaceReturn(r)

SpecRace == InitRace /\ [][NextRace]_vars

(* --------------------------------------------------------- filename tools *)
(* One run of src/tv-scene-filenames.py (scan_move_and_rename) or of        *)
(* src/movie-scene-filenames.py (main) on a small tree.  fs is the tree,    *)
(* paths relative to the root; fs0 is the tree the run started on.          *)

(* tv-scene-filenames.py: the files of the tree.  The first two are named   *)
(* for episode S01E01 of show A and lie in the root, notes.txt is no video, *)
(* the others lie where plan_destination puts that episode.                 *)
TvRootFiles == {"A.S01E01.mkv", "A S1E1.mkv", "notes.txt"}
TvPlaced == {"A/S01/A.S01E01.mkv", "A/S01/A.S01E01._1.mkv", "A/S01/A.S01E01._2.mkv",
             "A/S01/A.S01E01.1.mkv", "A/S01/A.S01E01.2.mkv"}

(* plan, lines 207-228: None for a file that is no video, has no episode   *)
(* marker or is where it belongs; else the destination.  A suffix ._1 of   *)
(* ensure_unique is read as the episode title 1.                           *)
plan(path) ==
    CASE path \in {"A.S01E01.mkv", "A S1E1.mkv"} ->
             Some([dest_dir |-> "A/S01", dest |-> "A/S01/A.S01E01.mkv"])
      [] path = "A/S01/A.S01E01._1.mkv" ->
             Some([dest_dir |-> "A/S01", dest |-> "A/S01/A.S01E01.1.mkv"])
      [] path = "A/S01/A.S01E01._2.mkv" ->
             Some([dest_dir |-> "A/S01", dest |-> "A/S01/A.S01E01.2.mkv"])
      [] OTHER -> None

(* ensure_unique, lines 199-205: the first of path, base._1.ext,           *)
(* base._2.ext, ... that does not exist                                    *)
ensure_unique(fs, path) ==
    IF path \notin fs.files THEN path
    ELSE IF path = "A/S01/A.S01E01.mkv"
         THEN (IF "A/S01/A.S01E01._1.mkv" \notin fs.files THEN "A/S01/A.S01E01._1.mkv"
               ELSE "A/S01/A.S01E01._2.mkv")
         ELSE path \o "._1"

(* os.makedirs(dest_dir, exist_ok=True) *)
makedirs(fs, d) ==
    [fs EXCEPT !.dirs = @ \cup (IF d = "A/S01" THEN {"A", "A/S01"} ELSE {d})]

(* shutil.move(src, dst) *)
move(fs, src, dst) == [fs EXCEPT !.files = (@ \ {src}) \cup {dst}]

(* os.walk: the file names and the subdirectories of a directory *)
FilesIn(fs, d) ==
    IF d = "" THEN fs.files \cap TvRootFiles
    ELSE IF d = "A/S01" THEN fs.files \cap TvPlaced ELSE {}
SubDirs(fs, d) ==
    IF d = "" THEN (IF "A" \in fs.dirs THEN <<"A">> ELSE <<>>)
    ELSE IF d = "A" THEN (IF "A/S01" \in fs.dirs THEN <<"A/S01">> ELSE <<>>)
    ELSE <<>>

TvTrees ==
    {[dirs |-> ds, files |-> fl] :
        ds \in {{}, {"A"}, {"A", "A/S01"}},
        fl \in SUBSET (TvRootFiles \cup {"A/S01/A.S01E01.mkv"})}
TvRuns ==
    {[phase |-> "run", prog |-> "tv", dry_run |-> dry, fs |-> t, fs0 |-> t,
      walk |-> <<"">>, names |-> {}, entries |-> <<>>] :
        dry \in BOOLEAN,
        t \in {x \in TvTrees : "A/S01/A.S01E01.mkv" \in x.files => "A/S01" \in x.dirs}}

(* movie-scene-filenames.py: the entries of DIRECTORY, in sorted order *)
MovieEntries == <<".DS_Store", "A (1999)", "A (1999).mkv", "A.1999">>
MovieDirs == {"A (1999)", "A.1999"}

(* normalize_name, lines 141-187, on the names of the tree *)
normalize_name(name) == IF name = "A (1999)" THEN "A.1999" ELSE name

(* os.path.splitext(entry_name)[0] *)
BaseOf(name) == IF name = "A (1999).mkv" THEN "A (1999)" ELSE name

(* unique_target_path, lines 189-198 *)
unique_target_path(fs, target_name) ==
    IF target_name \notin fs.dirs \cup fs.files THEN target_name
    ELSE IF target_name \o ".1" \notin fs.dirs \cup fs.files THEN target_name \o ".1"
    ELSE target_name \o ".2"

MovieRuns ==
    {[phase |-> "run", prog |-> "movie", dry_run |-> dry,
      fs |-> [dirs |-> present \cap MovieDirs, files |-> present \ MovieDirs],
      fs0 |-> [dirs |-> present \cap MovieDirs, files |-> present \ MovieDirs],
      walk |-> <<>>, names |-> {},
      entries |-> SelectSeq(MovieEntries, LAMBDA n : n \in present)] :
        dry \in BOOLEAN, present \in SUBSET {MovieEntries[k] : k \in 1..4}}

InitTool ==
    /\ InitPipeline /\ lib = LibMovies /\ pick = NoPick /\ scan = NoScan
    /\ tool \in TvRuns \cup MovieRuns
    /\ parse = NoParse /\ asset = NoAsset /\ serve = NoServe /\ race = NoRace

(* scan_move_and_rename, line 232: os.walk comes to the next directory *)
TvWalk ==
    /\ tool.phase = "run" /\ tool.prog = "tv"
    /\ tool.names = {} /\ tool.walk # <<>>
    /\ LET d == Head(tool.walk)
       IN  tool' = [tool EXCEPT !.names = FilesIn(tool.fs, d),
                                !.walk = SubDirs(tool.fs, d) \o Tail(@)]
    /\ UNCHANGED <<pipeline, pick, scan, parse, asset, serve, race>>

(* scan_move_and_rename, lines 233-248: the body of the loop for one file *)
TvFile ==
    /\ tool.phase = "run" /\ tool.prog = "tv"
    /\ \E src \in tool.names :
          LET p == plan(src)
          IN  IF p = None THEN tool' = [tool EXCEPT !.names = @ \ {src}]
              ELSE LET made == makedirs(tool.fs, p[1].dest_dir)
                       dst == ensure_unique(made, p[1].dest)
                   IN  tool' = [tool EXCEPT
                            !.names = @ \ {src},
                            !.fs = IF ~tool.dry_run THEN move(made, src, dst) ELSE made]
    /\ UNCHANGED <<pipeline, pick, scan, parse, asset, serve, race>>

(* movie-scene-filenames.py main, lines 236-250, with process_folder and   *)
(* process_file, lines 202-229: the next entry of the sorted listing       *)
MovieEntry ==
    /\ tool.phase = "run" /\ tool.prog = "movie" /\ tool.entries # <<>>
    /\ LET entry == Head(tool.entries)
           fs == tool.fs
           new_name == normalize_name(entry)
           new_path == unique_target_path(fs, new_name)
           target_dir == unique_target_path(fs, normalize_name(BaseOf(entry)))
           after ==
               IF entry = ".DS_Store" THEN fs
               ELSE IF entry \in fs.dirs
               THEN (IF new_name = entry \/ tool.dry_run THEN fs
                     ELSE [fs EXCEPT !.dirs = (@ \ {entry}) \cup {new_path}])
               ELSE IF entry \in fs.files
               THEN (IF tool.dry_run THEN fs
                     ELSE move([fs EXCEPT !.dirs = @ \cup {target_dir}],
                               entry, target_dir \o "/" \o entry))
               ELSE fs
       IN  tool' = [tool EXCEPT !.entries = Tail(@), !.fs = after]
    /\ UNCHANGED <<pipeline, pick, scan, parse, asset, serve, race>>

(* the walk or the listing is over *)
ToolDone ==
    /\ tool.phase = "run"
    /\ tool.names = {} /\ tool.walk = <<>> /\ tool.entries = <<>>
    /\ tool' = [tool EXCEPT !.phase = "done"]
    /\ UNCHANGED <<pipeline, pick, scan, parse, asset, serve, race>>

NextTool ==
    \/ TvWalk
    \/ TvFile
    \/ MovieEntry
    \/ ToolDone

SpecTool == InitTool /\ [][NextTool]_vars

(* ------------------------------------------------------------------ claims *)
Kind == KindOf(call)
InPass == pc \in {"search", "details", "save", "dump"}
Complete(kind, rec) == \A f \in FieldsOf(kind) : Populated(rec, f)

(* C1: a field that is populated in the cache when an entity is processed  *)
(* is never empty (None, "" or []) in the record written back for it,      *)
(* whatever the provider returns.                                          *)
C1_PopulatedNeverEmptied ==
    pc = "dump" /\ call # "ep" =>
        \A f \in FieldsOf(Kind) : Populated(start, f) => Populated(cache[Key], f)

FillOnlyFields == {"genres", "runtime", "vote", "certification", "cast", "backdrop_url"}

C3_SecondRunIdempotent ==
    pc = "done" /\ run = 2 => disk = disk1

(* C4: every provider search for a stand-up or documentary entry carries   *)
(* no year.                                                                *)
C4_StandupSearchedYearless ==
    req.kind = "search" /\ call \in {"s", "d"} => req.y = None

(* C5: once an episode's empty result is in the episode-title cache, no    *)
(* provider request is issued for that key again.                          *)
C5_NoRepeatedEpisodeLookup ==
    [][(pc = "eploop" /\ pc' = "epdump" /\ req'.sent) => EpKey(idx) \notin DOMAIN cache]_vars

(* C6 as stated: an entity for which the provider answered every search    *)
(* and details request of run 1 with data (its first search was accepted   *)
(* and its details request returned a document) and whose record was saved *)
(* gets no search and no details request in a later run.                   *)
AnsweredInRun1(c, i) ==
    /\ \E g \in given.search :
          /\ g[1] = c /\ g[2] = i
          /\ g[3].q = Searches(c, Items(c)[i])[1].q
          /\ g[3].y = Searches(c, Items(c)[i])[1].y
    /\ \E g \in given.details : g[1] = c /\ g[2] = i

C7_SavedRecordsSurviveInterrupt ==
    pc = "idle" => \A sk \in saved : sk[2] \in DOMAIN load_cache(disk[sk[1]])

(* C8: whatever requests fail, enrich_movies returns one entry per item in *)
(* input order, enrich_shows processes and caches every show, a completed  *)
(* run has cached every entity, and inside an entity the run is always at  *)
(* a request or a write it can make.                                       *)
IdsOf(items, n) == [k \in 1..n |-> items[k].id]

C8_NoFailureIsFatal ==
    /\ pc = "loop" /\ call \in {"m", "s", "d"} => enriched = IdsOf(Items(call), idx - 1)
    /\ pc = "loop" /\ call = "tv" =>
          \A k \in 1..(idx - 1) :
              /\ CacheKey("tv", lib.tv[k]) \in DOMAIN load_cache(disk.tv)
              /\ tvids[k] = load_cache(disk.tv)[CacheKey("tv", lib.tv[k])].id
    /\ pc = "done" =>
          \A c \in {"m", "s", "d", "tv"} : \A k \in 1..Len(lib[c]) :
              CacheKey(c, lib[c][k]) \in DOMAIN load_cache(disk[FileOf(c)])
    /\ pc \in {"search", "details", "save", "dump"} => idx \in 1..Len(Items(call))
    /\ pc = "search" => att \in 1..Len(Searches(call, Item))
    /\ pc = "epdump" => idx \in 1..Len(EpItems)

(* every search of the first movie failed or was empty, the second movie   *)
(* was matched, and enrich_movies returns both                             *)
C8_Witness ==
    /\ pc = "loop" /\ call = "m" /\ run = 1 /\ creds
    /\ Len(lib.m) = 2 /\ idx = 3
    /\ cache[CacheKey("m", lib.m[1])] = EmptyRec
    /\ cache[CacheKey("m", lib.m[2])].id # None
    /\ enriched = <<"m1", "m2">>

(* C9: without credentials no lookup issues an HTTP request and every      *)
(* lookup returns no match: the record written back is the cached record,  *)
(* and an episode gets the empty name.                                     *)
C9_NoCredentialsNoMatch ==
    ~creds /\ pc \notin {"idle", "done"} =>
        /\ ~req.sent
        /\ InPass => loc = start
        /\ pc = "dump" => cache[Key] = start
        /\ pc = "epdump" => cache[EpKey(idx)] = ""

C9_Witness ==
    /\ ~creds /\ pc = "dump"
    /\ req.kind = "details" /\ ~req.sent
    /\ Populated(start, "id") /\ Populated(start, "overview")
    /\ cache[Key] = start

(* C10: a search is issued for an entity only if its cached record lacks   *)
(* the provider id, the poster, the overview or one of the details fields. *)
DetailFields(kind) ==
    IF kind = "tv" THEN {"genres", "vote", "first_year", "cast"}
    ELSE {"genres", "runtime", "vote", "certification", "cast"}

C10_SearchOnlyWhenNeeded ==
    req.kind = "search" =>
        \E f \in {"id", "poster_url", "overview"} \cup DetailFields(Kind) : ~Populated(start, f)

(* a search issued only because details are missing *)
C10_Witness ==
    /\ req.kind = "search"
    /\ Populated(start, "id") /\ Populated(start, "poster_url") /\ Populated(start, "overview")

(* C11: a details request is issued for an entity only with a provider id  *)
(* (the cached one or the one the search just resolved) and only when the  *)
(* cached record needs details or lacks a backdrop or a tagline.           *)
C11_DetailsOnlyWithIdAndNeed ==
    req.kind = "details" =>
        /\ req.id # None
        /\ req.id = loc.id
        /\ \/ NeedDetails(Kind, start)
           \/ ~Populated(start, "backdrop_url")
           \/ ~Populated(start, "tagline")

C11_Witness ==
    /\ req.kind = "details" /\ req.sent
    /\ start.id = None /\ req.id # None

C13_CachePerCategory ==
    run = 1 /\ call = "d" /\ InPass => start = EmptyRec

(* C14: the pick is, among the first ten results only, the earliest result *)
(* with the highest score; None for an empty list.                         *)
C14_PickBestOfFirstTen ==
    pick.done =>
        LET rs == pick.results
            n == IF Len(rs) < 10 THEN Len(rs) ELSE 10
        IN  IF rs = <<>> THEN pick.best = None
            ELSE \E k \in 1..n :
                    /\ pick.best = Some(rs[k])
                    /\ \A j \in 1..n : rs[j].sc <= rs[k].sc
                    /\ \A j \in 1..(k - 1) : rs[j].sc < rs[k].sc

C14_Witness ==
    /\ pick.done /\ Len(pick.results) = 11
    /\ pick.results[11].sc = 105
    /\ \A j \in 1..10 : pick.results[j].sc = -10
    /\ pick.best = Some(pick.results[1])

(* C15: the searches of one entity go out in the fixed order (movies: the  *)
(* years year, year-1, year+1, year-2, year+2, each against the text       *)
(* variants in order, then the yearless variants, then the colon-stripped  *)
(* fallback; shows: raw, trailing-year-stripped, punctuation-normalized,   *)
(* both), and no search goes out once a match is accepted.                 *)
YearPos(y, year) ==
    IF y = None THEN 5
    ELSE CASE y[1] = year[1] -> 0
           [] y[1] = year[1] - 1 -> 1
           [] y[1] = year[1] + 1 -> 2
           [] y[1] = year[1] - 2 -> 3
           [] y[1] = year[1] + 2 -> 4

TextPos(q, texts) ==
    CHOOSE k \in 1..Len(texts) : texts[k] = q /\ \A j \in 1..(k - 1) : texts[j] # q

MovieTexts(title) ==
    LET variants == TextVariants(title, FALSE)
    IN  variants \o <<FallbackTitle(variants)>>

ShowTexts(title) ==
    << StripSeq(title),
       StripSeq(strip_trailing_year(title)),
       StripSeq(normalize_title_for_search(title)),
       StripSeq(normalize_title_for_search(strip_trailing_year(title))) >>

SearchRank(r) ==
    IF call = "tv" THEN TextPos(r.q, ShowTexts(Item.title))
    ELSE YearPos(r.y, Item.year) * 10 + TextPos(r.q, MovieTexts(Item.title))

AcceptedInRun1(c, i) == {g \in given.search : g[1] = c /\ g[2] = i}

C15_FirstAcceptedInOrder ==
    /\ [](run = 1 /\ pc = "search" => AcceptedInRun1(call, idx) = {})
    /\ [](run = 1 => \A i \in 1..2 : \A c \in {"m", "s", "d", "tv"} :
                        Cardinality(AcceptedInRun1(c, i)) <= 1)
    /\ [][(pc = "search" /\ pc' # "idle" /\ req.kind = "search" /\ req'.kind = "search")
            => SearchRank(req) < SearchRank(req')]_vars

C15_Witness ==
    /\ run = 1 /\ call = "m" /\ idx = 1 /\ InPass
    /\ req.kind = "search" /\ req.y = Some(2018) /\ req.q = <<"A", " ", "b">>
    /\ AcceptedInRun1("m", 1) # {}

(* C16: within the resolution of one entity no two search requests carry   *)
(* the same (lowercased query, year) pair.                                 *)
C16_NoDuplicateSearch ==
    pc = "search" =>
        LET S == Searches(call, Item)
        IN  \A i \in 1..att : \A j \in 1..att :
                i < j => <<Lower(S[i].q), S[i].y>> # <<Lower(S[j].q), S[j].y>>

C16_Witness ==
    /\ pc = "search" /\ att >= 2 /\ req.kind = "search" /\ req.sent
    /\ \/ call = "m" /\ Len(AttemptCalls(Item.title, Item.year, FALSE))
                           > Len(Searches(call, Item))
       \/ call = "tv" /\ Len(Searches(call, Item)) < 4

(* the calls of _add_or_update_episode so far for the episode of a record *)
CallsFor(r) ==
    {k \in 1..Len(scan.handled) :
        /\ scan.handled[k].sid = r.sid
        /\ scan.handled[k].s = r.item.s
        /\ scan.handled[k].e = r.item.e}

(* C17: after any sequence of _add_or_update_episode calls for files of    *)
(* the same (show, season, episode) the retained record points at the      *)
(* first-seen file among those of maximal size, and its size and modified  *)
(* time are that file's.                                                   *)
C17_LargestFileKept ==
    \A r \in EpisodeRecords(scan.shows_meta) :
        LET calls == CallsFor(r)
            largest == {k \in calls : \A o \in calls :
                            scan.handled[o].fp.size <= scan.handled[k].fp.size}
            first == CHOOSE k \in largest : \A o \in largest : k <= o
        IN  /\ calls # {}
            /\ r.item.file = scan.handled[first].fp.path
            /\ r.item.size = scan.handled[first].fp.size
            /\ r.item.mtime = scan.handled[first].fp.mtime

C17_Witness ==
    /\ scan.phase = "done"
    /\ \E r \in EpisodeRecords(scan.shows_meta) :
          /\ Cardinality(CallsFor(r)) = 3
          /\ \E a, b, c \in CallsFor(r) :
                /\ a < b /\ b < c
                /\ scan.handled[a].fp.size < scan.handled[b].fp.size
                /\ scan.handled[b].fp.size = scan.handled[c].fp.size
                /\ r.item.file = scan.handled[b].fp.path

(* C18: within a season every episode number has one record; after        *)
(* discover_shows every episode key identifies one record and the          *)
(* episode-key index holds one path per record, the record's file.         *)
C18_EpisodeKeysUnique ==
    LET recs == EpisodeRecords(scan.shows_meta)
    IN  /\ \A r1 \in recs : \A r2 \in recs :
              (r1.sid = r2.sid /\ r1.season = r2.season /\ r1.item.e = r2.item.e)
                  => r1 = r2
        /\ scan.phase = "done" =>
              /\ \A r1 \in recs : \A r2 \in recs : r1.item.eid = r2.item.eid => r1 = r2
              /\ \A r \in recs : r.item.eid = Some(Eid(r.sid, r.season, r.item.e))
              /\ DOMAIN scan.episodes_index = {r.item.eid[1] : r \in recs}
              /\ Cardinality(DOMAIN scan.episodes_index) = Cardinality(recs)
              /\ \A r \in recs : scan.episodes_index[r.item.eid[1]] = r.item.file

C18_Witness ==
    /\ scan.phase = "done" /\ scan.prefix = "tv"
    /\ Cardinality(DOMAIN scan.shows_meta) = 2
    /\ Cardinality(EpisodeRecords(scan.shows_meta)) = 3
    /\ Len(scan.handled) = 5

(* C19: the ids of a category are its prefix and the integers 1, 2, ... in *)
(* discovery order: the sorted entries of the root, then the sorted        *)
(* entries of the archived directory continuing the sequence; show ids are *)
(* assigned once per case-insensitive show name.                           *)
Catalogued(n, archived) ==
    /\ ~Hidden(n.name)
    /\ n.name \notin EXCLUDED_DIRS
    /\ (archived \/ n.name # ARCHIVED_DIR_NAME)
    /\ (n.dir \/ IsVideo(n.name))

ExpectedSources(root) ==
    LET arch == UNION {n.kids : n \in {a \in root : a.name = ARCHIVED_DIR_NAME /\ a.dir}}
        act == SelectSeq(sorted(root), LAMBDA n : Catalogued(n, FALSE))
        arc == SelectSeq(sorted(arch), LAMBDA n : Catalogued(n, TRUE))
    IN  [k \in 1..Len(act) |-> [source |-> act[k].name, archived |-> FALSE]]
        \o [k \in 1..Len(arc) |-> [source |-> arc[k].name, archived |-> TRUE]]

C19_IdsConsecutive ==
    /\ \A k \in 1..Len(scan.items) : scan.items[k].id = <<scan.prefix, k>>
    /\ (scan.phase = "done" /\ scan.prefix # "tv") =>
          [k \in 1..Len(scan.items) |->
              [source |-> scan.items[k].source, archived |-> scan.items[k].archived]]
          = ExpectedSources(scan.root)
    /\ \A k1 \in DOMAIN scan.shows_map : \A k2 \in DOMAIN scan.shows_map :
          scan.shows_map[k1] = scan.shows_map[k2] => k1 = k2
    /\ {scan.shows_map[k] : k \in DOMAIN scan.shows_map} = 1..(scan.show_id_seq - 1)
    /\ \A k \in DOMAIN scan.shows_map :
          k = Lower(scan.shows_meta[scan.shows_map[k]].title)
    /\ \A n \in 1..Len(scan.shows_list) : scan.shows_list[n].id = <<"tv", n>>

C19_Witness ==
    /\ scan.phase = "done" /\ scan.prefix = "s"
    /\ Len(scan.items) = 3
    /\ Cardinality(scan.root) = 6
    /\ ~scan.items[2].archived /\ scan.items[3].archived
    /\ scan.items[3].id = <<"s", 3>>

(* C20: no dot-prefixed file or directory and no entry of the output       *)
(* directory becomes a catalog entry, an entry's video file or an episode  *)
(* file.                                                                   *)
Excluded(path) ==
    \E j \in 1..Len(path) : Hidden(path[j]) \/ path[j] \in EXCLUDED_DIRS

C20_NoHiddenOrOutputEntry ==
    /\ \A k \in 1..Len(scan.items) :
          ~Excluded(<<scan.items[k].source>>) /\ ~Excluded(scan.items[k].abs_path)
    /\ \A r \in EpisodeRecords(scan.shows_meta) : ~Excluded(r.item.file)

(* a 4-digit year token at position k: four digits 19dd or 20dd that are a *)
(* whole run of digits                                                     *)
YearTokenAt(s, k) ==
    /\ YEAR_RE(s, k)
    /\ (k = 1 \/ s[k - 1] \notin Digits)
    /\ (k + 4 > Len(s) \/ s[k + 4] \notin Digits)

(* C21: for a name with a 4-digit year token the parser returns that year  *)
(* and the text before the token, separators replaced by spaces and        *)
(* whitespace collapsed; a name whose digits only contain 19dd or 20dd     *)
(* inside a longer run has no year.                                        *)
C21_YearTokenOnly ==
    parse.fn = "year" /\ parse.done =>
        LET s == Collapse(SubEach(parse.arg, {"."}, <<" ">>))
            ts == {k \in 1..Len(s) : YearTokenAt(s, k)}
        IN  IF ts = {} THEN parse.out.year = None
            ELSE LET k == CHOOSE t \in ts : \A o \in ts : t <= o
                 IN  parse.out = [title |-> Collapse(SubSeq(s, 1, k - 1)),
                                  year |-> Some(YearValue(s, k))]

(* C22: a file name with an S<1-2 digits>E<1-2 digits> marker, in either   *)
(* letter case, zero padded or not, with separators between its parts,     *)
(* parses to the season and episode written in the marker and to the text  *)
(* before it as the show name; a name without a marker parses to None.     *)
C22_MarkerParsed ==
    parse.fn = "show" /\ parse.done =>
        IF parse.arg.mark = None THEN parse.out = None
        ELSE LET m == parse.arg.mark[1]
             IN  /\ parse.out # None
                 /\ parse.out[1].season = IntOf(m.sd, 1, Len(m.sd) + 1)
                 /\ parse.out[1].episode = IntOf(m.ed, 1, Len(m.ed) + 1)
                 /\ parse.out[1].show = clean_name(m.pre)

C23_PosterStep ==
    [][asset.phase = "run" /\ asset'.i = asset.i + 1 =>
        LET item == asset.items[asset.i]
            local == LocalName(item)
            existed == local \in DOMAIN asset.files
            asked == asset'.downloads # asset.downloads
            written == ~existed /\ local \in DOMAIN asset'.files
                       /\ asset'.files[local] = "whole"
            ref == asset'.out[asset.i]
        IN  /\ asked => ~existed /\ asset'.downloads = Append(asset.downloads, item.poster_url)
            /\ asked /\ ~written => ref = item.poster_url
            /\ item.poster_url # "" /\ (existed \/ written) => ref = asset.dir \o local
            /\ Len(asset'.out) = asset.i
            /\ asset'.items = asset.items /\ asset'.phase = "run"
            /\ \A k \in 1..(asset.i - 1) : asset'.out[k] = asset.out[k]]_vars

(* a download has failed, the entity has the remote url, and a later       *)
(* entity has its poster from the local file                               *)
C23_Witness ==
    /\ asset.phase = "done"
    /\ \E j, k \in 1..Len(asset.out) :
          /\ j < k
          /\ asset.out[j] = asset.items[j].poster_url /\ asset.out[j] # ""
          /\ asset.out[k] = asset.dir \o LocalName(asset.items[k])
          /\ Len(asset.downloads) >= 2

(* C24: the index holds exactly the ids whose entry has a video path, a    *)
(* play request starts the player with no other path than the one the      *)
(* index maps the requested id to, and a request for an id that is not in  *)
(* the index starts no process.                                            *)
C24_PlaybackThroughIndex ==
    /\ [](serve.phase = "serve" =>
            /\ DOMAIN serve.index =
                  {serve.entries[k].id : k \in {j \in DOMAIN serve.entries :
                                                  serve.entries[j].abs_path # <<>>}}
            /\ \A k \in DOMAIN serve.entries :
                  serve.entries[k].abs_path # <<>> =>
                      serve.index[serve.entries[k].id] = serve.entries[k].abs_path)
    /\ [][serve.phase = "serve" /\ serve'.reqs # serve.reqs =>
            LET id == serve'.reqs[Len(serve'.reqs)]
            IN  IF id \in DOMAIN serve.index
                THEN serve'.launched \in {serve.launched,
                                          Append(serve.launched, serve.index[id])}
                ELSE serve'.launched = serve.launched]_vars

(* a request for an id of the index has started the player, a request for  *)
(* the id of an entry without a video and one for an unknown id have not   *)
C24_Witness ==
    /\ Len(serve.reqs) = 2 /\ Len(serve.launched) = 1
    /\ \E k \in DOMAIN serve.entries :
          serve.entries[k].abs_path = <<>> /\ serve.reqs[2] = serve.entries[k].id
    /\ serve.reqs[1] \in DOMAIN serve.index

(* C28: _launch starts a process only for a file whose real path is the    *)
(* category's root or lies below it; a real path in a sibling directory    *)
(* whose name begins with the root's name starts none.                     *)
C28_LaunchOnlyUnderRoot ==
    [][serve'.launched # serve.launched =>
        LET rp == realpath(serve.fs, serve'.launched[Len(serve'.launched)])
            base == realpath(serve.fs, Root)
        IN  rp = base \/ IsPrefix(base \o <<"/">>, rp)]_vars

(* C25: a run never takes up the other run's records after its load, and   *)
(* a save leaves the file, when it is readable, with exactly the saving    *)
(* run's own dict; so a record the other run has saved since that load is  *)
(* lost by the save.                                                       *)
C25_OwnCopyRewritten ==
    [][\A r \in Runs :
        /\ race.runs[r].pc # "start" =>
              DOMAIN race'.runs[r].mem \subseteq
                  DOMAIN race.runs[r].mem \cup {RaceKey(race.runs[r].i)}
        /\ race.runs[r].pc = "dump" /\ race'.runs[r].pc = "item" /\ race'.file.ok =>
              race'.file.data = race.runs[r].mem]_vars

(* the lost update: a record one run has saved is missing from the         *)
(* readable file the other run's save has just left                        *)
C25_Witness ==
    \E r \in Runs : \E k \in {RaceKey(i) : i \in 1..MaxKeys} :
        /\ <<r, k>> \in race.saved
        /\ race.last = Other(r)
        /\ race.file.ok
        /\ k \notin DOMAIN race.file.data

(* C26: in dry-run mode both filename tools leave the tree as it was: no   *)
(* file is moved or renamed and no directory is created.                   *)
C26_DryRunChangesNothing ==
    tool.dry_run => tool.fs = tool.fs0

(* C29: no score is below -0.10, so the pick of a non-empty result list is *)
(* never None, however low its scores, and a search that returns at least  *)
(* one result is accepted.                                                 *)
C29_NoThreshold ==
    /\ \A s \in SimScores : s >= -10
    /\ pick.done /\ pick.results # <<>> => pick.best # None
    /\ \A data \in SearchAnswers : data # None /\ data[1] # <<>> => Accepted(data) # None

(* a list whose results all have the lowest score has been scored and one  *)
(* of them is the pick                                                     *)
C29_Witness ==
    /\ pick.done /\ Len(pick.results) >= 2 /\ pick.best # None
    /\ \A k \in DOMAIN pick.results : pick.results[k].sc = LowestScore
    /\ LowestScore = -10

(* the enrichment calls of a run in build_site's order, counted down *)
CallsLeft == CASE call = "m" -> 5 [] call = "s" -> 4 [] call = "d" -> 3
               [] call = "tv" -> 2 [] call = "ep" -> 1 [] OTHER -> 0

(* the entities (episodes) the call's loop has not finished *)
ItemsLeft ==
    IF call = "ep" THEN Len(EpItems) + 1 - idx
    ELSE IF call \in {"m", "s", "d", "tv"} THEN Len(Items(call)) + 1 - idx
    ELSE 0

(* what is left of the pass of one entity *)
StepsLeft == CASE pc = "loop" -> 25 [] pc = "search" -> 24 - att
               [] pc = "details" -> 3 [] pc = "save" -> 2 [] pc = "dump" -> 1
               [] pc = "eploop" -> 2 [] pc = "epdump" -> 1 [] OTHER -> 0

(* a natural number that every step of a run makes smaller *)
RunRank == CallsLeft * 1000 + ItemsLeft * 30 + StepsLeft

SearchLimit(c) == IF c = "tv" THEN 4 ELSE 19

(* the search lists of all titles, with punctuation of every kind *)
SearchListsBounded ==
    /\ \A c \in VariantCalls :
          Len(MovieSearches(c.arg.title, c.arg.year, c.arg.force_yearless))
              <= SearchLimit("m")
    /\ \A c \in TvVariantCalls : Len(TvSearches(c.arg)) <= SearchLimit("tv")

(* C30: a run of the enrichment ends, because every step of a run lowers   *)
(* a natural-number rank; an entity's pass sends its searches one after    *)
(* the other, at most 19 for a movie-like entity and at most 4 for a show, *)
(* then at most one details request, and never goes back to a request; an  *)
(* episode is asked for at most once per run, the loop moving on after     *)
(* each episode request.                                                   *)
C30_BoundedRequests ==
    /\ [](/\ SearchListsBounded
          /\ RunRank >= 0
          /\ pc = "search" =>
                /\ att \in 1..Len(Searches(call, Item))
                /\ Len(Searches(call, Item)) <= SearchLimit(call))
    /\ [][/\ run' = run => RunRank' < RunRank
          /\ pc = "search" /\ pc' = "search" =>
                att' = att + 1 /\ idx' = idx /\ call' = call
          /\ pc \in {"details", "save", "dump"} => pc' \notin {"search", "details"}
          /\ pc = "epdump" /\ pc' = "eploop" => idx' > idx /\ call' = call]_vars

(* an entity whose searches have all been sent, the last one accepted, has *)
(* had its one details request                                             *)
C30_Witness ==
    /\ pc = "save" /\ call = "m" /\ req.kind = "details" /\ req.sent
    /\ att = Len(Searches(call, Item))
    /\ att >= 12

====
